---- MODULE Spec2Model ----
(***************************************************************************)
(* aio-rom: model persistence, collection save and the reentrant           *)
(* transaction scope, over a Redis-like store shared with another writer.  *)
(*                                                                         *)
(* The model class under persistence is                                    *)
(*     class Bar(Model):                                                   *)
(*         f1: int                                                         *)
(*         f2: Optional[str]                                               *)
(*         items: List[int] = field(default_factory=list)                  *)
(*         cache: int = field(default=0, metadata={"transient": True})     *)
(* One client call chain runs save / update / get on an instance m and     *)
(* save on its collection m.items; a second client writes to the same keys.*)
(***************************************************************************)
EXTENDS Integers, Sequences, FiniteSets, TLC

\* ------------------------------------------------------------------ bounds
MaxVal == 1        \* integer field values 0..MaxVal, list elements 1..MaxVal
MaxLen == 1        \* longest local / remote list

\* A list element whose type has no registered serializer (e.g. a datetime).
Unsupported == 0

None == "<None>"   \* Python None: an unset value, an absent hash field
NoChanges == <<>>  \* update(**{}) / save: the empty keyword mapping

Ids == {1}         \* the id of the Bar instance the clients work on
IntVals == 0..MaxVal
StrVals == {"a"}
Elems == (1..MaxVal) \cup {Unsupported}
EnvVal == "a"      \* the value the other client writes
FooIds == {1, 2}   \* the ids of the Foo instances a model list refers to

MaxItem == 2       \* elements of a stand-alone collection: 1..MaxItem
MaxItems == 2      \* longest stand-alone list
ItemVals == (1..MaxItem) \cup {Unsupported}

MaxDepth == 2      \* deepest nesting of connection() / transaction() scopes in a chain
MaxOpens == 3      \* connections, and pipelines, opened in one behaviour

VARIABLES
    store,        \* the remote store: [hashes, sets, lists]
    m,            \* the client's in-memory Bar instance
    TRANSACTION,  \* session.TRANSACTION: 0 = None, else the open pipeline
    tr,           \* commands queued on the open pipeline
    scopes,       \* live transaction() scopes, innermost last; TRUE = opened the pipeline
    watched,      \* keys WATCHed for the pipeline's connection
    dirty,        \* a watched key was written since it was watched
    pipes,        \* pipelines opened by the running call
    execCount,    \* tr.execute() calls made by the running call
    mpc,          \* position inside Model.save / Model.update
    cpc,          \* position inside RedisCollection.save
    call,         \* the running top-level call and its arguments
    exc,          \* exception propagating through the running call
    conflict,     \* the other client wrote the call's optimistic key after the watch
    result        \* outcome of the client's last completed call, while it is current:
                  \* until the client moves on or the store is written again

vars == <<store, m, TRANSACTION, tr, scopes, watched, dirty, pipes, execCount,
          mpc, cpc, call, exc, conflict, result>>

\* ------------------------------------------------------------- field table
FieldOrder == <<"id", "f1", "f2", "items", "cache">>
AllFields == {FieldOrder[i] : i \in 1..Len(FieldOrder)}

\* is_transient: field.metadata.get("transient", False)
is_transientMutNever(f) == FALSE
is_transient(f) == f = "cache"
has_default(f) == f \in {"items", "cache"}
is_optional(f) == f = "f2"
is_collection(f) == f = "items"

NonTransient == {f \in AllFields : ~is_transient(f)}

\* ------------------------------------------------------------------- keys
prefix == "bar"
coll_prefix == "redislist"
db_id(id) == prefix \o ":" \o ToString(id)
field_key(id, f) == db_id(id) \o ":" \o f
coll_db_id(cid) == coll_prefix \o ":" \o cid
items_key(id) == coll_db_id(field_key(id, "items"))

\* class Foo(Model): field1: int, the referenced model held in the list my_list
foo_prefix == "foo"
FooFields == {"id", "field1"}
foo_db_id(id) == foo_prefix \o ":" \o ToString(id)
foo_list_id == "my_list"
foo_list_key == coll_db_id(foo_list_id)

\* a stand-alone RedisSet "my_set"
set_prefix == "redisset"
set_id == "my_set"
set_key == set_prefix \o ":" \o set_id

HashKeys == {db_id(i) : i \in Ids} \cup {foo_db_id(i) : i \in FooIds}
ListKeys == {items_key(i) : i \in Ids} \cup {foo_list_key}
SetKeys == {prefix, coll_prefix, foo_prefix, set_prefix, set_key}
HashFields == AllFields \cup FooFields

\* ------------------------------------------------------------------ store
EmptyHash == [f \in HashFields |-> None]
EmptyStore == [hashes |-> [k \in HashKeys |-> EmptyHash],
               sets   |-> [k \in SetKeys |-> {}],
               lists  |-> [k \in ListKeys |-> <<>>]]

\* Redis keeps no empty hash: a key exists while it holds a field.
HashExists(s, k) == \E f \in HashFields : s.hashes[k][f] # None

\* The store's commands, as the pipeline queues them.
HMSet(k, mapping) == [cmd |-> "hmset", key |-> k, map |-> mapping]
HSet(k, f, v) == [cmd |-> "hset", key |-> k, map |-> (f :> v)]
SAdd(k, member) == [cmd |-> "sadd", key |-> k, map |-> (member :> member)]
Delete(k) == [cmd |-> "delete", key |-> k, map |-> <<>>]
SRem(k, member) == [cmd |-> "srem", key |-> k, map |-> (member :> member)]
RPush(k, values) == [cmd |-> "rpush", key |-> k, map |-> values]

ApplyCmd(s, c) ==
    CASE c.cmd \in {"hmset", "hset"} ->
           [s EXCEPT !.hashes[c.key] =
               [f \in HashFields |-> IF f \in DOMAIN c.map THEN c.map[f] ELSE @[f]]]
      [] c.cmd = "sadd" ->
           [s EXCEPT !.sets[c.key] = @ \cup DOMAIN c.map]
      [] c.cmd = "srem" ->
           [s EXCEPT !.sets[c.key] = @ \ DOMAIN c.map]
      [] c.cmd = "rpush" ->
           [s EXCEPT !.lists[c.key] = @ \o c.map]
      [] c.cmd = "delete" ->
           IF c.key \in ListKeys THEN [s EXCEPT !.lists[c.key] = <<>>]
           ELSE IF c.key \in HashKeys THEN [s EXCEPT !.hashes[c.key] = EmptyHash]
           ELSE IF c.key \in SetKeys THEN [s EXCEPT !.sets[c.key] = {}]
           ELSE s

RECURSIVE ApplyAll(_, _)
ApplyAll(s, q) == IF q = <<>> THEN s ELSE ApplyAll(ApplyCmd(s, Head(q)), Tail(q))

\* EXEC: a watched key written since WATCH discards the queue (WatchError).
Execute(s, q, d) == IF d THEN s ELSE ApplyAll(s, q)

\* ---------------------------------------------------------- serialization
json_dumps(v) == ToString(v)
JsonInts == IntVals \cup Ids \cup Elems \cup FooIds \cup ItemVals
JsonOk(s) == \E n \in JsonInts : ToString(n) = s
json_loads(s) == CHOOSE n \in JsonInts : ToString(n) = s

\* fields.serialize on a list element: int -> json.dumps, no serializer -> TypeError
CanSerialize(e) == e # Unsupported
SerializeElems(values) == [i \in 1..Len(values) |-> json_dumps(values[i])]

\* fields.serialize on a field value; a collection is written under its own id
serialize(id, f, v) ==
    CASE f \in {"id", "f1", "cache"} -> json_dumps(v)
      [] f = "f2" -> v
      [] f = "items" -> field_key(id, f)
      [] OTHER -> None

\* model.py 185-187: a defaulted field holding an empty iterable or None is left out
IsEmptyValue(f, v) ==
    CASE f = "items" -> v = <<>>
      [] f = "f2" -> v = None
      [] OTHER -> FALSE

Changed(inst, changes, f) == IF f \in DOMAIN changes THEN changes[f] ELSE inst[f]

ModelFields(inst, changes) ==
    {f \in NonTransient :
        /\ (changes = NoChanges \/ f \in DOMAIN changes)
        /\ (has_default(f) => ~IsEmptyValue(f, Changed(inst, changes, f)))}

\* model.py 207-214: a None that is not a collection is left out of the mapping
ModelDictFields(inst, changes) ==
    {f \in ModelFields(inst, changes) :
        is_collection(f) \/ serialize(inst.id, f, Changed(inst, changes, f)) # None}

ModelDict(inst, changes) ==
    [f \in ModelDictFields(inst, changes) |->
        serialize(inst.id, f, Changed(inst, changes, f))]

\* --------------------------------------------------------- deserialization
Ok(v) == [ok |-> TRUE, v |-> v]
Raise == [ok |-> FALSE, v |-> None]

LoadList(s, cid) ==
    LET k == coll_db_id(cid)
        raw == IF k \in ListKeys THEN s.lists[k] ELSE <<>>
    IN IF \A i \in 1..Len(raw) : JsonOk(raw[i])
       THEN Ok([i \in 1..Len(raw) |-> json_loads(raw[i])])
       ELSE Raise

\* fields.deserialize + field_deserializer
DefaultOf(f) == IF f = "items" THEN <<>> ELSE 0

deserialize(s, f, value) ==
    IF value = None /\ is_optional(f) THEN Ok(None)
    ELSE IF value = None /\ has_default(f) THEN Ok(DefaultOf(f))
    ELSE IF f = "f2" THEN Ok(value)
    ELSE IF is_collection(f) THEN LoadList(s, value)
    ELSE IF value # None /\ JsonOk(value) THEN Ok(json_loads(value))
    ELSE Raise

\* Model.get: NotFound on an empty hash, else every non-transient field
GetFieldsMutStored(db_item) == {f \in NonTransient : db_item[f] # None}
GetFields(db_item) == NonTransient

NoInst == [id |-> 0]

Get(s, id) ==
    LET db_item == s.hashes[db_id(id)]
        fs == GetFields(db_item)
        des == [f \in fs |-> deserialize(s, f, db_item[f])]
    IN IF ~HashExists(s, db_id(id))
       THEN [status |-> "NotFound", inst |-> NoInst]
       ELSE IF \E f \in fs : ~des[f].ok
       THEN [status |-> "TypeError", inst |-> NoInst]
       ELSE [status |-> "ok",
             inst |-> [f \in fs \cup {g \in AllFields : is_transient(g)} |->
                          IF f \in fs THEN des[f].v ELSE DefaultOf(f)]]

\* dataclass __eq__: id is declared compare=False
ModelEq(a, b) ==
    /\ DOMAIN a = DOMAIN b
    /\ \A f \in DOMAIN a \ {"id"} : a[f] = b[f]

\* dataclasses.replace(self, **changes)
Replace(inst, changes) == [f \in DOMAIN inst |-> Changed(inst, changes, f)]

\* ------------------------------------------------------ transaction scope
\* session.transaction, entry: an ambient transaction is yielded as it is
Reuses(t) == t # 0

\* session.transaction, entry: the watches reach the pipeline that is opened
TxWatch(watches) == watches

\* the state of the scope stack after `async with transaction(*watches)`
Entered(t, q, sc, w, p, watches) ==
    IF Reuses(t)
    THEN [TRANSACTION |-> t, tr |-> q, scopes |-> Append(sc, FALSE),
          watched |-> w, pipes |-> p]
    ELSE [TRANSACTION |-> p + 1, tr |-> <<>>, scopes |-> Append(sc, TRUE),
          watched |-> w \cup TxWatch(watches), pipes |-> p + 1]

\* session.transaction, exit: only the scope that opened the pipeline executes it
ExecutesOnExitMutAlways(owner) == TRUE
ExecutesOnExit(owner) == owner

\* Model._serialized_model: conn.watch(self.db_id) when optimistic. The command
\* goes out on the call chain's connection when it is called; its reply is not
\* awaited.
ModelWatchMutNone(optimistic, key) == {}
ModelWatch(optimistic, key) == IF optimistic THEN {key} ELSE {}

\* RedisCollection.save: watch = [self.db_id()] if optimistic else []
CollWatch(optimistic, key) == IF optimistic THEN {key} ELSE {}

NoCall == [fn |-> "none", optimistic |-> FALSE, changes |-> NoChanges]
NoResult == [kind |-> "none", status |-> "none", inst |-> NoInst, queued |-> 0,
             executes |-> 0, pipes |-> 0, conflict |-> FALSE, afterSave |-> FALSE]

Idle == mpc = "idle" /\ cpc = "none"

\* the key the running call asked to have watched
Target == IF call.fn = "collsave" THEN items_key(m.id) ELSE db_id(m.id)

\* does leaving the innermost transaction() scope call tr.execute()?
ExitRuns == ExecutesOnExit(scopes[Len(scopes)])
Executed == IF ExitRuns THEN execCount + 1 ELSE execCount

\* leaving the innermost transaction() scope; `more` is what the caller queues
\* on the ambient transaction before it next suspends
ExitScope(more) ==
    LET owner == scopes[Len(scopes)]
    IN /\ scopes' = SubSeq(scopes, 1, Len(scopes) - 1)
       /\ store' = IF ExitRuns THEN Execute(store, tr, dirty) ELSE store
       /\ exc' = IF ExitRuns /\ dirty THEN "WatchError" ELSE exc
       /\ TRANSACTION' = IF owner THEN 0 ELSE TRANSACTION
       /\ tr' = (IF ExitRuns THEN <<>> ELSE tr)
                \o (IF exc = "none" THEN more ELSE <<>>)
       /\ watched' = IF ExitRuns THEN {} ELSE watched
       /\ dirty' = IF ExitRuns THEN FALSE ELSE dirty

\* the top-level call returns (or raises) and the call's bookkeeping is cleared
Returned(kind, inst) ==
    /\ result' = [kind |-> kind, status |-> IF exc' = "none" THEN "ok" ELSE exc',
                  inst |-> IF exc' = "none" THEN inst ELSE NoInst,
                  queued |-> Len(tr), executes |-> Executed, pipes |-> pipes,
                  conflict |-> conflict, afterSave |-> FALSE]
    /\ call' = NoCall
    /\ execCount' = 0
    /\ pipes' = 0
    /\ conflict' = FALSE

\* ----------------------------------------------------------------- actions
ChangeSets ==
    {("f1" :> a) : a \in IntVals} \cup {("f2" :> b) : b \in StrVals \cup {None}}

\* Model.save: hmset_dict + sadd; Model.update: one hset per serialized change
ModelCmds(fn, inst, changes) ==
    LET d == ModelDict(inst, changes)
        names == SelectSeq(FieldOrder, LAMBDA f : f \in DOMAIN d)
    IN IF fn = "save"
       THEN <<HMSet(db_id(inst.id), d), SAdd(prefix, ToString(inst.id))>>
       ELSE [i \in 1..Len(names) |-> HSet(db_id(inst.id), names[i], d[names[i]])]

CollCmdsMutNoDelete(inst) ==
    IF \A i \in 1..Len(inst.items) : CanSerialize(inst.items[i])
    THEN <<RPush(items_key(inst.id), SerializeElems(inst.items)),
           SAdd(coll_prefix, field_key(inst.id, "items"))>>
    ELSE <<>>

CollCmdsMutWriteFirst(inst) ==
    IF \A i \in 1..Len(inst.items) : CanSerialize(inst.items[i])
    THEN <<RPush(items_key(inst.id), SerializeElems(inst.items)),
           Delete(items_key(inst.id)),
           SAdd(coll_prefix, field_key(inst.id, "items"))>>
    ELSE <<Delete(items_key(inst.id))>>

\* the body of RedisCollection.save: delete, the serialized values, sadd;
\* serialize raises TypeError on a value it has no serializer for
CollCmds(inst) ==
    IF \A i \in 1..Len(inst.items) : CanSerialize(inst.items[i])
    THEN <<Delete(items_key(inst.id)),
           RPush(items_key(inst.id), SerializeElems(inst.items)),
           SAdd(coll_prefix, field_key(inst.id, "items"))>>
    ELSE <<Delete(items_key(inst.id))>>

CollRaises(inst) ==
    IF \A i \in 1..Len(inst.items) : CanSerialize(inst.items[i])
    THEN "none" ELSE "TypeError"

\* RedisCollection.save: nothing to do for an empty collection
CollSaveSkips(values) == values = <<>>

\* conn.keys(f"{key}:*"): the stored keys nested under the instance's key
ExistingKeys(s) ==
    {k \in HashKeys : HashExists(s, k)}
        \cup {k \in SetKeys : s.sets[k] # {}}
        \cup {k \in ListKeys : s.lists[k] # <<>>}

keys(s, id) == {k \in ExistingKeys(s) : \E f \in AllFields : k = field_key(id, f)}

\* Model.count: scard of the membership set
count(s) == Cardinality(s.sets[prefix])

\* Model.delete: tr.delete(*keys, key); tr.srem(self.prefix(), key)
RECURSIVE DeleteAllOf(_)
DeleteAllOf(ks) ==
    IF ks = {} THEN <<>>
    ELSE LET k == CHOOSE x \in ks : TRUE
         IN <<Delete(k)>> \o DeleteAllOf(ks \ {k})

DeleteCmds(s, inst) ==
    DeleteAllOf(keys(s, inst.id))
        \o <<Delete(db_id(inst.id)), SRem(prefix, db_id(inst.id))>>

\* Model.save / Model.update: the scope is entered, the key watched, and either
\* the nested save is awaited or the model's own commands are queued
ModelBegin(fn, optimistic, changes) ==
    LET e == Entered(TRANSACTION, tr, scopes, watched, 0, {})
        nested == "items" \in ModelFields(m, changes)
    IN /\ Idle
       /\ call' = [fn |-> fn, optimistic |-> optimistic, changes |-> changes]
       /\ TRANSACTION' = e.TRANSACTION
       /\ scopes' = e.scopes
       /\ pipes' = e.pipes
       /\ watched' = e.watched \cup ModelWatch(optimistic, db_id(m.id))
       /\ mpc' = IF nested THEN "gather" ELSE "exit"
       /\ tr' = IF nested THEN e.tr ELSE e.tr \o ModelCmds(fn, m, changes)
       /\ execCount' = 0
       /\ exc' = "none"
       /\ conflict' = FALSE
       /\ result' = NoResult
       /\ UNCHANGED <<store, m, dirty, cpc>>

ModelSave(optimistic) == ModelBegin("save", optimistic, NoChanges)

ModelUpdate(optimistic, changes) == ModelBegin("update", optimistic, changes)

\* Model.delete: the nested keys are looked up, the scope is entered and the
\* deletions are queued
ModelDelete ==
    LET e == Entered(TRANSACTION, tr, scopes, watched, 0, {})
    IN /\ Idle
       /\ call' = [fn |-> "delete", optimistic |-> FALSE, changes |-> NoChanges]
       /\ TRANSACTION' = e.TRANSACTION
       /\ scopes' = e.scopes
       /\ pipes' = e.pipes
       /\ watched' = e.watched
       /\ mpc' = "exit"
       /\ tr' = e.tr \o DeleteCmds(store, m)
       /\ execCount' = 0
       /\ exc' = "none"
       /\ conflict' = FALSE
       /\ result' = NoResult
       /\ UNCHANGED <<store, m, dirty, cpc>>

\* RedisCollection.save on m.items, called by the client itself
CollSave(optimistic) ==
    LET e == Entered(TRANSACTION, tr, scopes, watched, 0,
                     CollWatch(optimistic, items_key(m.id)))
    IN /\ Idle
       /\ execCount' = 0
       /\ conflict' = FALSE
       /\ IF CollSaveSkips(m.items)
          THEN /\ result' = [NoResult EXCEPT !.kind = "collsave", !.status = "ok"]
               /\ call' = NoCall
               /\ pipes' = 0
               /\ exc' = "none"
               /\ UNCHANGED <<TRANSACTION, tr, scopes, watched, cpc>>
          ELSE /\ result' = NoResult
               /\ call' = [fn |-> "collsave", optimistic |-> optimistic,
                           changes |-> NoChanges]
               /\ TRANSACTION' = e.TRANSACTION
               /\ tr' = e.tr \o CollCmds(m)
               /\ exc' = CollRaises(m)
               /\ scopes' = e.scopes
               /\ pipes' = e.pipes
               /\ watched' = e.watched
               /\ cpc' = "exit"
       /\ UNCHANGED <<store, m, dirty, mpc>>

\* RedisCollection.save on m.items, gathered by Model._serialized_model
NestedCollSave ==
    LET e == Entered(TRANSACTION, tr, scopes, watched, pipes,
                     CollWatch(call.optimistic, items_key(m.id)))
    IN /\ mpc = "gather"
       /\ cpc = "none"
       /\ TRANSACTION' = e.TRANSACTION
       /\ tr' = e.tr \o CollCmds(m)
       /\ exc' = CollRaises(m)
       /\ scopes' = e.scopes
       /\ pipes' = e.pipes
       /\ watched' = e.watched
       /\ cpc' = "exit"
       /\ UNCHANGED <<store, m, dirty, mpc, call, execCount, conflict, result>>

\* leaving the transaction scope of RedisCollection.save; a nested save hands
\* control back to Model.save, which queues the model's own commands
CollSaveExit ==
    /\ cpc = "exit"
    /\ cpc' = "none"
    /\ IF mpc = "gather"
       THEN /\ ExitScope(ModelCmds(call.fn, m, call.changes))
            /\ mpc' = "exit"
            /\ execCount' = Executed
            /\ UNCHANGED <<call, result, pipes, conflict>>
       ELSE /\ ExitScope(<<>>)
            /\ mpc' = mpc
            /\ Returned("collsave", NoInst)
    /\ UNCHANGED m

\* leaving the transaction scope of Model.save / Model.update
ModelExit ==
    /\ mpc = "exit"
    /\ ExitScope(<<>>)
    /\ mpc' = "idle"
    /\ Returned(call.fn, IF call.fn = "update" THEN Replace(m, call.changes) ELSE NoInst)
    /\ UNCHANGED <<m, cpc>>

\* Model.get
ModelGet(id) ==
    /\ Idle
    /\ result' = [NoResult EXCEPT !.kind = "get",
                                  !.status = Get(store, id).status,
                                  !.inst = Get(store, id).inst,
                                  !.afterSave = (result.kind = "save"
                                                 /\ result.status = "ok"
                                                 /\ id = m.id)]
    /\ UNCHANGED <<store, m, TRANSACTION, tr, scopes, watched, dirty, pipes,
                   execCount, mpc, cpc, call, exc, conflict>>

\* Model.refresh: return await type(self).get(self.id)
ModelRefresh ==
    /\ Idle
    /\ result' = [NoResult EXCEPT !.kind = "refresh",
                                  !.status = Get(store, m.id).status,
                                  !.inst = Get(store, m.id).inst]
    /\ UNCHANGED <<store, m, TRANSACTION, tr, scopes, watched, dirty, pipes,
                   execCount, mpc, cpc, call, exc, conflict>>

\* the task is cancelled while Model.save / Model.update is suspended in
\* asyncio.gather and the nested save has queued its commands: CancelledError
\* is raised at the await and unwinds through the scopes as any exception does
ModelCancelled ==
    /\ mpc = "gather"
    /\ cpc = "exit"
    /\ exc = "none"
    /\ exc' = "CancelledError"
    /\ UNCHANGED <<store, m, TRANSACTION, tr, scopes, watched, dirty, pipes,
                   execCount, mpc, cpc, call, conflict, result>>

\* the client changes its instance in memory
Local(inst) ==
    /\ Idle
    /\ inst # m
    /\ m' = inst
    /\ result' = NoResult
    /\ UNCHANGED <<store, TRANSACTION, tr, scopes, watched, dirty, pipes,
                   execCount, mpc, cpc, call, exc, conflict>>

SetField ==
    \/ \E v \in IntVals : Local([m EXCEPT !.f1 = v])
    \/ \E v \in StrVals \cup {None} : Local([m EXCEPT !.f2 = v])

ListAppend ==
    \E e \in Elems :
        /\ Len(m.items) < MaxLen
        /\ Local([m EXCEPT !.items = Append(@, e)])

ListRemove ==
    \E i \in 1..Len(m.items) :
        Local([m EXCEPT !.items = SubSeq(@, 1, i - 1) \o SubSeq(@, i + 1, Len(@))])

\* the other client writes a key
EnvWrote(k) ==
    /\ dirty' = (dirty \/ k \in watched)
    /\ conflict' = (conflict \/ (scopes # <<>> /\ call.optimistic /\ k = Target))
    /\ result' = NoResult
    /\ UNCHANGED <<m, TRANSACTION, tr, scopes, watched, pipes, execCount, mpc,
                   cpc, call, exc>>

EnvHset ==
    \E i \in Ids :
        /\ store' = ApplyCmd(store, HSet(db_id(i), "f2", EnvVal))
        /\ EnvWrote(db_id(i))

EnvRpush ==
    \E i \in Ids :
        /\ Len(store.lists[items_key(i)]) < MaxLen
        /\ store' = ApplyCmd(store, RPush(items_key(i), <<json_dumps(1)>>))
        /\ EnvWrote(items_key(i))

Init ==
    /\ store = EmptyStore
    /\ m \in {[id |-> i, f1 |-> 0, f2 |-> None, items |-> <<>>, cache |-> 0] : i \in Ids}
    /\ TRANSACTION = 0
    /\ tr = <<>>
    /\ scopes = <<>>
    /\ watched = {}
    /\ dirty = FALSE
    /\ pipes = 0
    /\ execCount = 0
    /\ mpc = "idle"
    /\ cpc = "none"
    /\ call = NoCall
    /\ exc = "none"
    /\ conflict = FALSE
    /\ result = NoResult

Next ==
    \/ \E o \in BOOLEAN : ModelSave(o)
    \/ \E o \in BOOLEAN, c \in ChangeSets : ModelUpdate(o, c)
    \/ ModelDelete
    \/ \E o \in BOOLEAN : CollSave(o)
    \/ NestedCollSave
    \/ CollSaveExit
    \/ ModelExit
    \/ ModelCancelled
    \/ \E i \in Ids : ModelGet(i)
    \/ ModelRefresh
    \/ SetField
    \/ ListAppend
    \/ ListRemove
    \/ EnvHset
    \/ EnvRpush

Spec == Init /\ [][Next]_vars

\* ------------------------------------------- model lists and references
\* The client holds a RedisList of Foo instances, m = [id, values], saves it
\* with or without cascade, and gets, deletes and lists Foo instances.
NoList == [id |-> foo_list_id, values |-> <<>>]
Foo(id, v) == [id |-> id, field1 |-> v]
FooIdsOf(values) == {values[i].id : i \in 1..Len(values)}

\* Model.get on Foo
FooGetOf(s, id) ==
    LET db_item == s.hashes[foo_db_id(id)]
    IN IF ~HashExists(s, foo_db_id(id))
       THEN [status |-> "NotFound", inst |-> NoInst]
       ELSE IF \E f \in FooFields : db_item[f] = None \/ ~JsonOk(db_item[f])
       THEN [status |-> "TypeError", inst |-> NoInst]
       ELSE [status |-> "ok",
             inst |-> Foo(json_loads(db_item["id"]), json_loads(db_item["field1"]))]

\* Model.save on Foo: hmset_dict + sadd
FooSaveCmds(inst) ==
    <<HMSet(foo_db_id(inst.id),
            [f \in FooFields |-> json_dumps(inst[f])]),
      SAdd(foo_prefix, ToString(inst.id))>>

\* Model.delete on Foo: no key is nested under a Foo
FooDeleteCmds(inst) ==
    <<Delete(foo_db_id(inst.id)), SRem(foo_prefix, foo_db_id(inst.id))>>

\* the collection's elements as they are written: the ids of the models
ModelIds(values) == [i \in 1..Len(values) |-> ToString(values[i].id)]

FooListCmds(coll) ==
    <<Delete(foo_list_key), RPush(foo_list_key, ModelIds(coll.values)),
      SAdd(coll_prefix, coll.id)>>

\* RedisCollection.save: `if cascade:` gathers the elements' save
CascadesMutNever(cascade) == FALSE
CascadesMutAlways(cascade) == TRUE
Cascades(cascade) == cascade

RefCall(fn, optimistic, cascade, next) ==
    [fn |-> fn, optimistic |-> optimistic, changes |-> NoChanges,
     cascade |-> cascade, next |-> next]

\* RedisCollection.save on the model list
FooListSave(optimistic, cascade) ==
    LET e == Entered(TRANSACTION, tr, scopes, watched, 0,
                     CollWatch(optimistic, foo_list_key))
    IN /\ Idle
       /\ execCount' = 0
       /\ conflict' = FALSE
       /\ exc' = "none"
       /\ IF CollSaveSkips(m.values)
          THEN /\ result' = [NoResult EXCEPT !.kind = "collsave", !.status = "ok"]
               /\ call' = NoCall
               /\ pipes' = 0
               /\ UNCHANGED <<TRANSACTION, tr, scopes, watched, cpc>>
          ELSE /\ result' = NoResult
               /\ call' = RefCall("collsave", optimistic, cascade, 1)
               /\ TRANSACTION' = e.TRANSACTION
               /\ tr' = e.tr \o FooListCmds(m)
               /\ scopes' = e.scopes
               /\ pipes' = e.pipes
               /\ watched' = e.watched
               /\ cpc' = IF Cascades(cascade) THEN "cascade" ELSE "exit"
       /\ UNCHANGED <<store, m, dirty, mpc>>

\* the gathered v.save(optimistic=optimistic) of the next element: Model.save
\* enters the open transaction and queues its commands
FooSave ==
    LET inst == m.values[call.next]
        e == Entered(TRANSACTION, tr, scopes, watched, pipes, {})
    IN /\ cpc = "cascade"
       /\ mpc = "idle"
       /\ TRANSACTION' = e.TRANSACTION
       /\ tr' = e.tr \o FooSaveCmds(inst)
       /\ scopes' = e.scopes
       /\ pipes' = e.pipes
       /\ watched' = e.watched \cup ModelWatch(call.optimistic, foo_db_id(inst.id))
       /\ mpc' = "exit"
       /\ UNCHANGED <<store, m, dirty, execCount, cpc, call, exc, conflict, result>>

\* Model.delete on an element of the list
FooDelete ==
    \E i \in 1..Len(m.values) :
        LET e == Entered(TRANSACTION, tr, scopes, watched, 0, {})
        IN /\ Idle
           /\ call' = RefCall("delete", FALSE, FALSE, i)
           /\ TRANSACTION' = e.TRANSACTION
           /\ tr' = e.tr \o FooDeleteCmds(m.values[i])
           /\ scopes' = e.scopes
           /\ pipes' = e.pipes
           /\ watched' = e.watched
           /\ mpc' = "exit"
           /\ execCount' = 0
           /\ exc' = "none"
           /\ conflict' = FALSE
           /\ result' = NoResult
           /\ UNCHANGED <<store, m, dirty, cpc>>

\* leaving the transaction scope of Model.save / Model.delete on a Foo
FooExit ==
    /\ mpc = "exit"
    /\ mpc' = "idle"
    /\ ExitScope(<<>>)
    /\ IF cpc = "cascade"
       THEN /\ call' = [call EXCEPT !.next = @ + 1]
            /\ cpc' = IF call.next = Len(m.values) THEN "exit" ELSE "cascade"
            /\ execCount' = Executed
            /\ UNCHANGED <<result, pipes, conflict>>
       ELSE /\ Returned(call.fn, NoInst)
            /\ cpc' = cpc
    /\ UNCHANGED m

\* leaving the transaction scope of RedisCollection.save
FooListSaveExit ==
    /\ cpc = "exit"
    /\ cpc' = "none"
    /\ ExitScope(<<>>)
    /\ Returned("collsave", NoInst)
    /\ UNCHANGED <<m, mpc>>

\* the ids in Foo's membership set, as smembers / isscan return them
FooMembers(s) == {i \in FooIds : ToString(i) \in s.sets[foo_prefix]}
FooValid(s) == {i \in FooMembers(s) : FooGetOf(s, i).status = "ok"}

\* a get raised for one of the keys: its exception reaches the caller
GetsRaise(s, ids) == \E i \in ids : FooGetOf(s, i).status # "ok"
RaisedBy(s, ids) == FooGetOf(s, CHOOSE i \in ids : FooGetOf(s, i).status # "ok").status

\* the models that the gets of the given keys return
Models(s, ids) == [models |-> {FooGetOf(s, i).inst : i \in ids}]

\* Model.all: gather(get(key) for key in smembers(prefix))
AllOf(s) ==
    IF GetsRaise(s, FooMembers(s))
    THEN [status |-> RaisedBy(s, FooMembers(s)), inst |-> Models(s, {})]
    ELSE [status |-> "ok", inst |-> Models(s, FooMembers(s))]

\* Model.scan: get(key) for each scanned key, yielding until a get raises;
\* `before` are the keys the scan yielded before it met a key whose get raises
ScanOf(s, before) ==
    [status |-> IF GetsRaise(s, FooMembers(s)) THEN RaisedBy(s, FooMembers(s)) ELSE "ok",
     inst |-> Models(s, before)]

ReadResult(kind, r) ==
    /\ Idle
    /\ result' = [NoResult EXCEPT !.kind = kind, !.status = r.status, !.inst = r.inst]
    /\ UNCHANGED <<store, m, TRANSACTION, tr, scopes, watched, dirty, pipes,
                   execCount, mpc, cpc, call, exc, conflict>>

FooGet(id) == ReadResult("get", FooGetOf(store, id))

FooAll == ReadResult("all", AllOf(store))

FooScan ==
    \E before \in SUBSET FooValid(store) :
        /\ GetsRaise(store, FooMembers(store)) \/ before = FooValid(store)
        /\ ReadResult("scan", ScanOf(store, before))

\* the client changes its list in memory
FooLocal(values) ==
    /\ Idle
    /\ values # m.values
    /\ m' = [m EXCEPT !.values = values]
    /\ result' = NoResult
    /\ UNCHANGED <<store, TRANSACTION, tr, scopes, watched, dirty, pipes,
                   execCount, mpc, cpc, call, exc, conflict>>

FooAppend ==
    \E i \in FooIds \ FooIdsOf(m.values), v \in IntVals :
        FooLocal(Append(m.values, Foo(i, v)))

FooRemove ==
    \E i \in 1..Len(m.values) :
        FooLocal(SubSeq(m.values, 1, i - 1) \o SubSeq(m.values, i + 1, Len(m.values)))

FooSetField ==
    \E i \in 1..Len(m.values), v \in IntVals :
        FooLocal([m.values EXCEPT ![i].field1 = v])

RefInit ==
    /\ store = EmptyStore
    /\ m = NoList
    /\ TRANSACTION = 0
    /\ tr = <<>>
    /\ scopes = <<>>
    /\ watched = {}
    /\ dirty = FALSE
    /\ pipes = 0
    /\ execCount = 0
    /\ mpc = "idle"
    /\ cpc = "none"
    /\ call = NoCall
    /\ exc = "none"
    /\ conflict = FALSE
    /\ result = NoResult

RefNext ==
    \/ \E o \in BOOLEAN, c \in BOOLEAN : FooListSave(o, c)
    \/ FooSave
    \/ FooDelete
    \/ FooExit
    \/ FooListSaveExit
    \/ \E i \in FooIds : FooGet(i)
    \/ FooAll
    \/ FooScan
    \/ FooAppend
    \/ FooRemove
    \/ FooSetField

RefSpec == RefInit /\ [][RefNext]_vars

\* ------------------------------------------------- lazily loaded lists
\* A model list read without eager loading: m = [cls, keys, cache], the keys
\* as the store returned them and the models loaded so far, in loading order.
ListClasses == {"RedisModelList", "LazyModelList"}

LazyList(cls, ks, cache) == [cls |-> cls, keys |-> ks, cache |-> cache]
Cached(o) == {o.cache[j].id : j \in 1..Len(o.cache)}
CacheGet(o, k) == o.cache[CHOOSE j \in 1..Len(o.cache) : o.cache[j].id = k]

\* a subscript of the cache: a key of the list, or whatever else is passed
ByKey(k) == [key |-> k]
ByObject(x) == [obj |-> x]

\* _get_cached_item: self._cache[key], KeyError -> ModelNotLoadedException
GetCachedItem(o, ref) ==
    IF "key" \in DOMAIN ref /\ ref.key \in Cached(o)
    THEN [status |-> "ok", inst |-> CacheGet(o, ref.key)]
    ELSE [status |-> "NotLoaded", inst |-> NoInst]

\* ModelCollection.values: the cached models; RedisCollection.values: the keys
ValuesOf(o) == o.cache

\* __getitem__(i), i counted from 1: LazyModelList subscripts the cache with
\* self.keys[i], RedisModelList with self.values[i]
GetItemOf(o, i) ==
    IF o.cls = "LazyModelList"
    THEN GetCachedItem(o, ByKey(o.keys[i]))
    ELSE IF i > Len(ValuesOf(o))
    THEN [status |-> "IndexError", inst |-> NoInst]
    ELSE GetCachedItem(o, ByObject(ValuesOf(o)[i]))

\* __iter__: filter(None, iter(the cached models)); __len__: their number
IterOf(o) == [status |-> "ok", inst |-> [models |-> o.cache]]
LenOf(o) == [status |-> "ok", inst |-> [count |-> Len(o.cache)]]

\* __contains__(x): x among the cached models / its key among the cached keys
ContainsOf(o, x) ==
    [status |-> "ok",
     inst |-> [found |-> IF o.cls = "LazyModelList"
                         THEN x.id \in Cached(o)
                         ELSE \E j \in 1..Len(ValuesOf(o)) : ValuesOf(o)[j] = x]]

LazyResult(kind, r, i) ==
    /\ result' = [kind |-> kind, status |-> r.status, inst |-> r.inst, index |-> i]
    /\ UNCHANGED <<store, m, TRANSACTION, tr, scopes, watched, dirty, pipes,
                   execCount, mpc, cpc, call, exc, conflict>>

LazyChanged(o) ==
    /\ m' = o
    /\ result' = NoResult
    /\ UNCHANGED <<store, TRANSACTION, tr, scopes, watched, dirty, pipes,
                   execCount, mpc, cpc, call, exc, conflict>>

\* from_key / create without eager loading: the keys are read, nothing is loaded
LazyFromKey ==
    \E cls \in ListClasses :
        LET raw == store.lists[foo_list_key]
        IN /\ raw # <<>>
           /\ LazyChanged(LazyList(cls, [j \in 1..Len(raw) |-> json_loads(raw[j])], <<>>))

\* one _get_item(key) of load() / of the asynchronous iteration
LazyLoadItem ==
    \E j \in 1..Len(m.keys) :
        /\ m.keys[j] \notin Cached(m)
        /\ FooGetOf(store, m.keys[j]).status = "ok"
        /\ LazyChanged([m EXCEPT !.cache = Append(@, FooGetOf(store, m.keys[j]).inst)])

LazyGetItem == \E i \in 1..Len(m.keys) : LazyResult("getitem", GetItemOf(m, i), i)

LazyIter == m.keys # <<>> /\ LazyResult("iter", IterOf(m), 0)

LazyLen == m.keys # <<>> /\ LazyResult("len", LenOf(m), 0)

LazyContains ==
    \E i \in 1..Len(m.keys) :
        LazyResult("contains", ContainsOf(m, FooGetOf(store, m.keys[i]).inst), i)

\* self._cache[key] = value / del self._cache[key]
CachePut(cache, value) ==
    IF \E j \in 1..Len(cache) : cache[j].id = value.id
    THEN [j \in 1..Len(cache) |-> IF cache[j].id = value.id THEN value ELSE cache[j]]
    ELSE Append(cache, value)

CacheDel(cache, k) == SelectSeq(cache, LAMBDA x : x.id # k)

\* list.insert(index, key) and list.pop(i), positions counted from 1
KeysInsert(ks, i, k) == SubSeq(ks, 1, i - 1) \o <<k>> \o SubSeq(ks, i, Len(ks))
KeysPop(ks, i) == SubSeq(ks, 1, i - 1) \o SubSeq(ks, i + 1, Len(ks))

LazyMutated(kind, status, o, i) ==
    /\ m' = o
    /\ result' = [kind |-> kind, status |-> status, inst |-> NoInst, index |-> i]
    /\ UNCHANGED <<store, TRANSACTION, tr, scopes, watched, dirty, pipes,
                   execCount, mpc, cpc, call, exc, conflict>>

\* LazyModelList.insert, which __setitem__ calls as well
LazyInsert ==
    \E i \in 1..(Len(m.keys) + 1), id \in FooIds, v \in IntVals :
        /\ m.cls = "LazyModelList"
        /\ Len(m.keys) < MaxItems
        /\ LazyMutated("insert", "ok",
                       [m EXCEPT !.cache = CachePut(@, Foo(id, v)),
                                 !.keys = KeysInsert(@, i, id)], i)

\* LazyModelList.__delitem__: key = self.keys.pop(i); del self._cache[key]
LazyDelItem ==
    \E i \in 1..Len(m.keys) :
        /\ m.cls = "LazyModelList"
        /\ LazyMutated("delitem",
                       IF m.keys[i] \in Cached(m) THEN "ok" ELSE "KeyError",
                       [m EXCEPT !.keys = KeysPop(@, i),
                                 !.cache = CacheDel(@, m.keys[i])], i)

\* the stores the list is read from: a list of distinct ids, every Foo stored
StoredLists ==
    {<<>>} \cup {<<ToString(i)>> : i \in FooIds}
           \cup {<<ToString(i), ToString(j)>> : i, j \in FooIds}

LazyStores ==
    {[EmptyStore EXCEPT
        !.lists[foo_list_key] = l,
        !.sets[foo_prefix] = {ToString(i) : i \in FooIds},
        !.hashes = [k \in HashKeys |->
                      IF \E i \in FooIds : k = foo_db_id(i)
                      THEN LET i == CHOOSE i \in FooIds : k = foo_db_id(i)
                           IN [f \in HashFields |->
                                 IF f = "id" THEN json_dumps(i)
                                 ELSE IF f = "field1" THEN json_dumps(v[i])
                                 ELSE None]
                      ELSE EmptyHash]]
       : l \in {q \in StoredLists : Len(q) = 2 => q[1] # q[2]},
         v \in [FooIds -> IntVals]}

LazyInit ==
    /\ store \in LazyStores
    /\ m = LazyList("LazyModelList", <<>>, <<>>)
    /\ TRANSACTION = 0
    /\ tr = <<>>
    /\ scopes = <<>>
    /\ watched = {}
    /\ dirty = FALSE
    /\ pipes = 0
    /\ execCount = 0
    /\ mpc = "idle"
    /\ cpc = "none"
    /\ call = NoCall
    /\ exc = "none"
    /\ conflict = FALSE
    /\ result = NoResult

LazyNext ==
    \/ LazyFromKey
    \/ LazyLoadItem
    \/ LazyGetItem
    \/ LazyIter
    \/ LazyLen
    \/ LazyContains
    \/ LazyInsert
    \/ LazyDelItem

LazySpec == LazyInit /\ [][LazyNext]_vars

\* ------------------------------------------------------ proxy references
\* ProxyModel(Foo, id): m = [id, proxied], proxied = NoInst until refresh().
\* While a proxy operation runs, tr is the list of the calls it awaited on the
\* wrapped instance and call is the operation with its arguments.
proxy_prefix == "proxymodel"

Proxy(id) == [id |-> id, proxied |-> NoInst]

\* `if self.proxied`
Resolved(o) == o.proxied # NoInst

\* the attributes that normal lookup finds on the proxy itself (the slot `id`,
\* the method db_id inherited from IModel); __getattr__ is not called for them
OwnAttrs == {"id", "db_id"}
Attrs == OwnAttrs \cup {"field1"}

NoValue == [value |-> None]
OwnAttr(o, a) ==
    IF a = "id" THEN ToString(o.id) ELSE proxy_prefix \o ":" \o ToString(o.id)

\* getattr(x, a) on a Foo, db_id called
TargetAttr(x, a) ==
    IF a = "id" THEN ToString(x.id)
    ELSE IF a = "db_id" THEN foo_db_id(x.id)
    ELSE ToString(x.field1)

\* proxy.a, and proxy.a() for the method
GetAttrOf(o, a) ==
    IF a \in OwnAttrs
    THEN [status |-> "ok", inst |-> [value |-> OwnAttr(o, a)]]
    ELSE IF ~Resolved(o)
    THEN [status |-> "ValueError", inst |-> NoValue]
    ELSE [status |-> "ok", inst |-> [value |-> TargetAttr(o.proxied, a)]]

ProxyCall(fn, optimistic, cascade) ==
    [fn |-> fn, optimistic |-> optimistic, changes |-> NoChanges, cascade |-> cascade]

ForwardedArgsMutDefaults(optimistic, cascade) ==
    [optimistic |-> FALSE, cascade |-> FALSE]

\* self.proxied.save(optimistic=optimistic, cascade=cascade)
ForwardedArgs(optimistic, cascade) ==
    [optimistic |-> optimistic, cascade |-> cascade]

Awaited(fn, target, args) == [fn |-> fn, target |-> target, args |-> args]

ProxyResult(kind, r, a) ==
    result' = [kind |-> kind, status |-> r.status, inst |-> r.inst, attr |-> a]

ProxyFrame == UNCHANGED <<TRANSACTION, scopes, watched, dirty, pipes, execCount,
                          cpc, exc, conflict>>

ProxyNew ==
    \E id \in FooIds :
        /\ mpc = "idle"
        /\ m' = Proxy(id)
        /\ result' = NoResult
        /\ ProxyFrame
        /\ UNCHANGED <<store, tr, mpc, call>>

ProxyRefresh ==
    LET r == FooGetOf(store, m.id)
    IN /\ mpc = "idle"
       /\ m' = IF r.status = "ok" THEN [m EXCEPT !.proxied = r.inst] ELSE m
       /\ ProxyResult("refresh", [status |-> r.status, inst |-> NoValue], "")
       /\ ProxyFrame
       /\ UNCHANGED <<store, tr, mpc, call>>

ProxyGetAttr ==
    \E a \in Attrs :
        /\ mpc = "idle"
        /\ ProxyResult("getattr", GetAttrOf(m, a), a)
        /\ ProxyFrame
        /\ UNCHANGED <<store, m, tr, mpc, call>>

\* the wrapped instance is changed in place
ProxySetField ==
    \E v \in IntVals :
        /\ mpc = "idle"
        /\ Resolved(m)
        /\ m' = [m EXCEPT !.proxied.field1 = v]
        /\ result' = NoResult
        /\ ProxyFrame
        /\ UNCHANGED <<store, tr, mpc, call>>

ProxySave ==
    \E optimistic \in BOOLEAN, cascade \in BOOLEAN :
        /\ mpc = "idle"
        /\ call' = ProxyCall("save", optimistic, cascade)
        /\ IF Resolved(m)
           THEN /\ tr' = <<Awaited("save", m.proxied, ForwardedArgs(optimistic, cascade))>>
                /\ store' = ApplyAll(store, FooSaveCmds(m.proxied))
           ELSE /\ tr' = <<>>
                /\ store' = store
        /\ mpc' = "exit"
        /\ result' = NoResult
        /\ ProxyFrame
        /\ UNCHANGED m

ProxyDelete ==
    \E cascade \in BOOLEAN :
        /\ mpc = "idle"
        /\ call' = ProxyCall("delete", FALSE, cascade)
        /\ IF Resolved(m)
           THEN /\ tr' = <<Awaited("delete", m.proxied, ForwardedArgs(FALSE, cascade))>>
                /\ store' = ApplyAll(store, FooDeleteCmds(m.proxied))
           ELSE /\ tr' = <<>>
                /\ store' = store
        /\ mpc' = "exit"
        /\ result' = NoResult
        /\ ProxyFrame
        /\ UNCHANGED m

ProxyReturn ==
    /\ mpc = "exit"
    /\ mpc' = "idle"
    /\ call' = NoCall
    /\ tr' = <<>>
    /\ ProxyResult(call.fn, [status |-> "ok", inst |-> NoValue], "")
    /\ ProxyFrame
    /\ UNCHANGED <<store, m>>

\* another client saves a Foo
ProxyEnvSave ==
    \E id \in FooIds, v \in IntVals :
        /\ mpc = "idle"
        /\ store' = ApplyAll(store, FooSaveCmds(Foo(id, v)))
        /\ store' # store
        /\ ProxyFrame
        /\ UNCHANGED <<m, tr, mpc, call, result>>

ProxyInit ==
    /\ store = EmptyStore
    /\ m \in {Proxy(id) : id \in FooIds}
    /\ TRANSACTION = 0
    /\ tr = <<>>
    /\ scopes = <<>>
    /\ watched = {}
    /\ dirty = FALSE
    /\ pipes = 0
    /\ execCount = 0
    /\ mpc = "idle"
    /\ cpc = "none"
    /\ call = NoCall
    /\ exc = "none"
    /\ conflict = FALSE
    /\ result = NoResult

ProxyNext ==
    \/ ProxyNew
    \/ ProxyRefresh
    \/ ProxyGetAttr
    \/ ProxySetField
    \/ ProxySave
    \/ ProxyDelete
    \/ ProxyReturn
    \/ ProxyEnvSave

ProxySpec == ProxyInit /\ [][ProxyNext]_vars

\* ------------------------------------------- deserializing references
\* What deserializing a stored reference does: m is the value handed to the
\* caller (the keys and the models fetched for them) and tr the list of the
\* gets issued on the referenced model class while deserializing.
IssuedGet(k) == [fn |-> "get", key |-> k]
GetsFor(ks) == [j \in 1..Len(ks) |-> IssuedGet(ks[j])]
StoredKeys(s) ==
    [j \in 1..Len(s.lists[foo_list_key]) |-> json_loads(s.lists[foo_list_key][j])]

\* the models that the gets of the keys returned, in the order of the keys
RECURSIVE Fetched(_, _)
Fetched(s, ks) ==
    IF ks = <<>> THEN <<>>
    ELSE (IF FooGetOf(s, Head(ks)).status = "ok"
          THEN <<FooGetOf(s, Head(ks)).inst>> ELSE <<>>) \o Fetched(s, Tail(ks))

FirstStatus(s, ks) ==
    IF \E j \in 1..Len(ks) : FooGetOf(s, ks[j]).status # "ok"
    THEN FooGetOf(s, ks[CHOOSE j \in 1..Len(ks) :
                          /\ FooGetOf(s, ks[j]).status # "ok"
                          /\ \A h \in 1..(j - 1) : FooGetOf(s, ks[h]).status = "ok"]).status
    ELSE "ok"

Deserialized(kind, eager, ks, fetch) ==
    /\ tr' = IF fetch THEN GetsFor(ks) ELSE <<>>
    /\ m' = LazyList(kind, ks, IF fetch THEN Fetched(store, ks) ELSE <<>>)
    /\ result' = [kind |-> kind,
                  status |-> IF fetch THEN FirstStatus(store, ks) ELSE "ok",
                  inst |-> NoValue, eager |-> eager]
    /\ UNCHANGED <<store, TRANSACTION, scopes, watched, dirty, pipes,
                   execCount, mpc, cpc, call, exc, conflict>>

\* field_deserializer for a field of a model type: the deserializer built by
\* _deserialize_reference is not given the field's eager flag
DeserializeReference ==
    \E eager \in BOOLEAN, key \in FooIds :
        Deserialized("reference", eager, <<key>>, TRUE)

\* field_deserializer for a list of models: from_key(..., eager=eager)
ModelListFromKey ==
    \E eager \in BOOLEAN :
        /\ StoredKeys(store) # <<>>
        /\ Deserialized("from_key", eager, StoredKeys(store), eager)

\* RedisCollection.get of aio_rom/collections.py: every element that
\* deserializes to a model is refreshed
CollectionGet ==
    \E eager \in BOOLEAN :
        /\ StoredKeys(store) # <<>>
        /\ Deserialized("get", eager, StoredKeys(store), TRUE)

\* the caller drops the value
DeserDrop ==
    /\ result.kind # "none"
    /\ tr' = <<>>
    /\ m' = LazyList("none", <<>>, <<>>)
    /\ result' = NoResult
    /\ UNCHANGED <<store, TRANSACTION, scopes, watched, dirty, pipes,
                   execCount, mpc, cpc, call, exc, conflict>>

DeserInit ==
    /\ store \in LazyStores
    /\ m = LazyList("none", <<>>, <<>>)
    /\ TRANSACTION = 0
    /\ tr = <<>>
    /\ scopes = <<>>
    /\ watched = {}
    /\ dirty = FALSE
    /\ pipes = 0
    /\ execCount = 0
    /\ mpc = "idle"
    /\ cpc = "none"
    /\ call = NoCall
    /\ exc = "none"
    /\ conflict = FALSE
    /\ result = NoResult

DeserNext ==
    \/ DeserializeReference
    \/ ModelListFromKey
    \/ CollectionGet
    \/ DeserDrop

DeserSpec == DeserInit /\ [][DeserNext]_vars

\* ------------------------------------------- fetching a stored collection
\* The three ways the sources read a list back from its key. A key exists in
\* the store exactly when its list is not empty.
Exists(s, key) == s.lists[key] # <<>>

\* conn.lrange(key, 0, -1): a list, empty for a key that does not exist
Reply(values) == [none |-> FALSE, values |-> values]
LRange(s, key) == Reply(s.lists[key])
IsNone(reply) == reply.none

MISSING == "<MISSING>"
Factories == {MISSING, "list"}

Fetch(status, default, values) ==
    [status |-> status, inst |-> [default |-> default, values |-> values]]

\* RedisCollection.get of aio_rom/attributes.py
AttributesGetOf(s, key) ==
    IF ~Exists(s, key)
    THEN Fetch("NotFound", FALSE, <<>>)
    ELSE Fetch("ok", FALSE, LRange(s, key).values)

\* RedisCollection.from_key of src/rom/attributes.py, without eager loading;
\* returning None is status "None"
FromKeyOf(s, default_factory, key) ==
    LET values == LRange(s, key)
    IN IF IsNone(values)
       THEN (IF default_factory # MISSING
             THEN Fetch("ok", TRUE, <<>>)
             ELSE Fetch("None", FALSE, <<>>))
       ELSE Fetch("ok", FALSE, values.values)

\* RedisCollection.get of aio_rom/collections.py, the elements not refreshed
CollectionsGetOf(s, key) == Fetch("ok", FALSE, LRange(s, key).values)

FetchResult(impl, default_factory, r) ==
    /\ result' = [kind |-> "fetch", impl |-> impl,
                  factory |-> default_factory, status |-> r.status, inst |-> r.inst]
    /\ UNCHANGED <<store, m, TRANSACTION, tr, scopes, watched, dirty, pipes,
                   execCount, mpc, cpc, call, exc, conflict>>

ListGet == FetchResult("attributes.get", MISSING, AttributesGetOf(store, foo_list_key))

ListFromKey ==
    \E default_factory \in Factories :
        FetchResult("from_key", default_factory,
                  FromKeyOf(store, default_factory, foo_list_key))

ListCollectionsGet ==
    FetchResult("collections.get", MISSING, CollectionsGetOf(store, foo_list_key))

\* RedisCollection.delete: conn.delete(self.db_id())
ListDelete ==
    /\ store' = ApplyAll(store, <<Delete(foo_list_key)>>)
    /\ result' = NoResult
    /\ UNCHANGED <<m, TRANSACTION, tr, scopes, watched, dirty, pipes,
                   execCount, mpc, cpc, call, exc, conflict>>

\* async_append: conn.rpush(self.db_id(), value.id)
ListAsyncAppend ==
    \E id \in FooIds :
        /\ Len(store.lists[foo_list_key]) < 2
        /\ store' = ApplyAll(store, <<RPush(foo_list_key, <<ToString(id)>>)>>)
        /\ result' = NoResult
        /\ UNCHANGED <<m, TRANSACTION, tr, scopes, watched, dirty, pipes,
                       execCount, mpc, cpc, call, exc, conflict>>

ListInit ==
    /\ store \in LazyStores
    /\ m = LazyList("none", <<>>, <<>>)
    /\ TRANSACTION = 0
    /\ tr = <<>>
    /\ scopes = <<>>
    /\ watched = {}
    /\ dirty = FALSE
    /\ pipes = 0
    /\ execCount = 0
    /\ mpc = "idle"
    /\ cpc = "none"
    /\ call = NoCall
    /\ exc = "none"
    /\ conflict = FALSE
    /\ result = NoResult

ListNext ==
    \/ ListGet
    \/ ListFromKey
    \/ ListCollectionsGet
    \/ ListDelete
    \/ ListAsyncAppend

ListSpec == ListInit /\ [][ListNext]_vars

\* ------------------------------------------------ stand-alone collections
\* RedisSet / RedisList of aio_rom/collections.py holding integers, used by one
\* client: m = [cls, id, values, members, tracked]. A list keeps its elements
\* in values, a set in members. tracked: since the collection was last loaded
\* the client called only save, async_add, async_discard and async_append.
Coll(cls, id, values, members) ==
    [cls |-> cls, id |-> id, values |-> values, members |-> members, tracked |-> TRUE]

\* `if not self.id`
HasId(o) == o.id # None
HasValues(o) == IF o.cls = "set" THEN o.members # {} ELSE o.values # <<>>

\* RedisCollection.db_id, once the id is known to be set
CollKey(o) == (IF o.cls = "set" THEN set_prefix ELSE coll_prefix) \o ":" \o o.id
CollPrefix(o) == IF o.cls = "set" THEN set_prefix ELSE coll_prefix

AllSerialize(o) ==
    /\ \A e \in o.members : CanSerialize(e)
    /\ \A i \in 1..Len(o.values) : CanSerialize(o.values[i])

SAddAll(k, members) == [cmd |-> "sadd", key |-> k, map |-> [x \in members |-> x]]

\* save_redis_values: rpush(*values) for a list, sadd(*values) for a set
SaveRedisValues(o) ==
    IF o.cls = "set"
    THEN SAddAll(CollKey(o), {json_dumps(e) : e \in o.members})
    ELSE RPush(CollKey(o), SerializeElems(o.values))

\* what the transaction of save has queued when its scope is left
CollectionSaveCmds(o) ==
    IF AllSerialize(o)
    THEN <<Delete(CollKey(o)), SaveRedisValues(o), SAdd(CollPrefix(o), o.id)>>
    ELSE <<Delete(CollKey(o))>>

\* the members / elements stored under the collection's key
RemoteMembers(s, o) ==
    IF HasId(o) /\ o.cls = "set" THEN {json_loads(x) : x \in s.sets[CollKey(o)]} ELSE {}
RemoteValues(s, o) ==
    IF HasId(o) /\ o.cls = "list"
    THEN [i \in 1..Len(s.lists[CollKey(o)]) |-> json_loads(s.lists[CollKey(o)][i])]
    ELSE <<>>

local_addMutNone(members, v) == members
local_appendMutFront(values, v) == <<v>> \o values

\* RedisSet.add / discard, UserList.append
local_add(members, v) == members \cup {v}
local_discard(members, v) == members \ {v}
local_append(values, v) == Append(values, v)

Did(kind, status, s2, o2) ==
    /\ result' = [kind |-> kind, status |-> status, inst |-> NoValue]
    /\ store' = s2
    /\ m' = o2
    /\ UNCHANGED <<TRANSACTION, tr, scopes, watched, dirty, pipes, execCount,
                   mpc, cpc, call, exc, conflict>>

\* RedisCollection.save
CollectionSave ==
    IF ~HasValues(m) THEN Did("save", "ok", store, m)
    ELSE IF ~HasId(m) THEN Did("save", "AttributeError", store, m)
    ELSE Did("save", IF AllSerialize(m) THEN "ok" ELSE "TypeError",
             ApplyAll(store, CollectionSaveCmds(m)), m)

\* RedisCollection.delete
CollectionDelete ==
    IF ~HasId(m) THEN Did("delete", "AttributeError", store, m)
    ELSE Did("delete", "ok",
             ApplyAll(store, <<Delete(CollKey(m)), SRem(CollPrefix(m), m.id)>>),
             [m EXCEPT !.tracked = FALSE])

\* RedisCollection.db_id
CollectionDbId == Did("db_id", IF HasId(m) THEN "ok" ELSE "AttributeError", store, m)

\* the argument list of the store command is evaluated first: db_id(), then
\* serialize(value); the local collection changes after the command
AsyncStatus(o, v) ==
    IF ~HasId(o) THEN "AttributeError" ELSE IF ~CanSerialize(v) THEN "TypeError" ELSE "ok"

SetAsyncAdd ==
    \E v \in ItemVals :
        /\ m.cls = "set"
        /\ IF AsyncStatus(m, v) # "ok" THEN Did("async_add", AsyncStatus(m, v), store, m)
           ELSE Did("async_add", "ok",
                    ApplyAll(store, <<SAdd(CollKey(m), json_dumps(v))>>),
                    [m EXCEPT !.members = local_add(@, v)])

SetAsyncDiscard ==
    \E v \in ItemVals :
        /\ m.cls = "set"
        /\ IF AsyncStatus(m, v) # "ok" THEN Did("async_discard", AsyncStatus(m, v), store, m)
           ELSE Did("async_discard", "ok",
                    ApplyAll(store, <<SRem(CollKey(m), json_dumps(v))>>),
                    [m EXCEPT !.members = local_discard(@, v)])

\* async_add of a model with cascade: sadd, then `await value.save(...)`, then
\* self.add(value); the element's save raises or completes.  The local set
\* holds the model's id for the model.
SetAsyncAddCascade ==
    \E id \in FooIds, raises \in BOOLEAN :
        /\ m.cls = "set"
        /\ IF ~HasId(m) THEN Did("async_add", "AttributeError", store, m)
           ELSE IF raises
           THEN Did("async_add", "SaveError",
                    ApplyAll(store, <<SAdd(CollKey(m), json_dumps(id))>>),
                    [m EXCEPT !.tracked = FALSE])
           ELSE Did("async_add", "ok",
                    ApplyAll(store, <<SAdd(CollKey(m), json_dumps(id))>>
                                        \o FooSaveCmds(Foo(id, 0))),
                    [m EXCEPT !.members = local_add(@, id)])

CollectionAsyncAppend ==
    \E v \in ItemVals :
        /\ m.cls = "list"
        /\ Len(m.values) < MaxItems
        /\ HasId(m) => Len(store.lists[CollKey(m)]) < MaxItems
        /\ IF AsyncStatus(m, v) # "ok" THEN Did("async_append", AsyncStatus(m, v), store, m)
           ELSE Did("async_append", "ok",
                    ApplyAll(store, <<RPush(CollKey(m), <<json_dumps(v)>>)>>),
                    [m EXCEPT !.values = local_append(@, v)])

\* RedisList.__aiter__, iterated to its end: for each index below llen the
\* element is read, deserialized, assigned to self[index] and yielded;
\* UserList.__setitem__ raises IndexError for an index the local list lacks
AiterValues(values, remote) ==
    [i \in 1..Len(values) |-> IF i <= Len(remote) THEN remote[i] ELSE values[i]]

CollectionAiter ==
    /\ m.cls = "list"
    /\ IF ~HasId(m) THEN Did("aiter", "AttributeError", store, m)
       ELSE Did("aiter",
                IF Len(m.values) < Len(RemoteValues(store, m)) THEN "IndexError" ELSE "ok",
                store,
                [m EXCEPT !.values = AiterValues(@, RemoteValues(store, m))])

\* RedisCollection.refresh: self.values = (await type(self).get(self.id)).values
CollectionRefresh ==
    Did("refresh", "ok", store,
        [m EXCEPT !.values = RemoteValues(store, m),
                  !.members = RemoteMembers(store, m),
                  !.tracked = TRUE])

\* add / discard / append / del: only the memory changes
CollectionLocal ==
    \E v \in ItemVals :
        \/ /\ m.cls = "set"
           /\ Did("add", "ok", store,
                  [m EXCEPT !.members = local_add(@, v), !.tracked = FALSE])
        \/ /\ m.cls = "set" /\ v \in m.members
           /\ Did("discard", "ok", store,
                  [m EXCEPT !.members = local_discard(@, v), !.tracked = FALSE])
        \/ /\ m.cls = "list" /\ Len(m.values) < MaxItems
           /\ Did("append", "ok", store,
                  [m EXCEPT !.values = local_append(@, v), !.tracked = FALSE])
        \/ /\ m.cls = "list" /\ m.values # <<>>
           /\ Did("del", "ok", store,
                  [m EXCEPT !.values = Tail(@), !.tracked = FALSE])

CollectionInit ==
    /\ store = EmptyStore
    /\ m \in {Coll("set", id, <<>>, {}) : id \in {None, set_id}}
              \cup {Coll("list", id, <<>>, {}) : id \in {None, foo_list_id}}
    /\ TRANSACTION = 0
    /\ tr = <<>>
    /\ scopes = <<>>
    /\ watched = {}
    /\ dirty = FALSE
    /\ pipes = 0
    /\ execCount = 0
    /\ mpc = "idle"
    /\ cpc = "none"
    /\ call = NoCall
    /\ exc = "none"
    /\ conflict = FALSE
    /\ result = NoResult

CollectionNext ==
    \/ CollectionSave
    \/ CollectionDelete
    \/ CollectionDbId
    \/ SetAsyncAdd
    \/ SetAsyncDiscard
    \/ SetAsyncAddCascade
    \/ CollectionAsyncAppend
    \/ CollectionAiter
    \/ CollectionRefresh
    \/ CollectionLocal

CollectionSpec == CollectionInit /\ [][CollectionNext]_vars

\* ---------------------------------------------------------- scalar values
\* fields.serialize and field_deserializer on scalar field values. A value is
\* its Python type and its repr; m is the pair of values of two fields.
Scalar(t, r) == [type |-> t, repr |-> r]

Scalars ==
    {Scalar("str", r) : r \in {"a", "1", "true"}}
        \cup {Scalar("int", ToString(i)) : i \in IntVals}
        \cup {Scalar("float", r) : r \in {"1.0", "1.5"}}
        \cup {Scalar("bool", r) : r \in {"True", "False"}}
        \cup {Scalar("bytes", r) : r \in {"a"}}

\* the types serialize is registered for
Registered == {"int", "float", "bool", "str", "NoneType"}

\* json.dumps on an int, a float or a bool
dumps(v) ==
    IF v.type = "bool" THEN (IF v.repr = "True" THEN "true" ELSE "false") ELSE v.repr

\* json.loads on a stored string
loads(s) ==
    IF s \in {"true", "false"}
    THEN Ok(Scalar("bool", IF s = "true" THEN "True" ELSE "False"))
    ELSE IF \E i \in JsonInts : ToString(i) = s THEN Ok(Scalar("int", s))
    ELSE IF s \in {"1.0", "1.5"} THEN Ok(Scalar("float", s))
    ELSE Raise

\* serialize: TypeError for a type that is not registered
SerializeScalar(v) ==
    IF v.type \notin Registered THEN Raise
    ELSE Ok(IF v.type = "str" THEN v.repr ELSE dumps(v))

\* field_deserializer for a field of type t: a str is returned as it is,
\* everything else goes through json.loads
DeserializeScalar(t, s) == IF t = "str" THEN Ok(Scalar("str", s)) ELSE loads(s)

ScalarResult(kind, rs) ==
    /\ result' = [kind |-> kind,
                  status |-> IF \A i \in 1..2 : rs[i].ok THEN "ok" ELSE "TypeError",
                  inst |-> [values |-> [i \in 1..2 |-> rs[i].v]]]
    /\ UNCHANGED <<store, m, TRANSACTION, tr, scopes, watched, dirty, pipes,
                   execCount, mpc, cpc, call, exc, conflict>>

ScalarSerialize ==
    /\ result.kind = "none"
    /\ ScalarResult("serialized", [i \in 1..2 |-> SerializeScalar(m[i])])

ScalarDeserialize ==
    /\ result.kind = "serialized" /\ result.status = "ok"
    /\ ScalarResult("deserialized",
                    [i \in 1..2 |-> DeserializeScalar(m[i].type, result.inst.values[i])])

ScalarInit ==
    /\ store = EmptyStore
    /\ m \in Scalars \X Scalars
    /\ TRANSACTION = 0
    /\ tr = <<>>
    /\ scopes = <<>>
    /\ watched = {}
    /\ dirty = FALSE
    /\ pipes = 0
    /\ execCount = 0
    /\ mpc = "idle"
    /\ cpc = "none"
    /\ call = NoCall
    /\ exc = "none"
    /\ conflict = FALSE
    /\ result = NoResult

ScalarNext == ScalarSerialize \/ ScalarDeserialize

ScalarSpec == ScalarInit /\ [][ScalarNext]_vars

\* ------------------------------------------------- per-type NotFoundException
\* Three model types, B a subclass of A; store is the set of primary keys
\* that hold a hash, m the last class and id that get was called with.

ModelTypes == {"A", "B", "C"}

TypeIds == 1..MaxItem

ClassBases(T) == IF T = "B" THEN {"A"} ELSE {"Model"}

cls_prefix(T) == CASE T = "A" -> "a" [] T = "B" -> "b" [] T = "C" -> "c"

cls_key(T, id) == cls_prefix(T) \o ":" \o ToString(id)

ModelNotFoundException == "ModelNotFoundException"

\* the class body of T runs in a namespace that already holds a new
\* exception class, so the attribute is T's own and is never looked up in
\* the bases of T
NotFoundExceptionMutInherited(T) == "NotFoundException of Model"

NotFoundException(T) == "NotFoundException of " \o T

ExcBases(c) ==
    IF c \in {NotFoundException(T) : T \in ModelTypes \cup {"Model"}}
    THEN {ModelNotFoundException}
    ELSE IF c = ModelNotFoundException THEN {"ORMException"}
    ELSE {}

RECURSIVE issubclass(_, _)
issubclass(c, d) == c = d \/ \E b \in ExcBases(c) : issubclass(b, d)

TypeGet ==
    \E T \in ModelTypes, id \in TypeIds :
        /\ m' = [cls |-> T, id |-> id]
        /\ result' = [kind |-> "get",
                      status |-> IF cls_key(T, id) \in store THEN "ok" ELSE "raised",
                      exc |-> IF cls_key(T, id) \in store THEN "none"
                              ELSE NotFoundException(T)]
        /\ UNCHANGED <<store, TRANSACTION, tr, scopes, watched, dirty, pipes,
                       execCount, mpc, cpc, call, exc, conflict>>

TypeSave ==
    \E T \in ModelTypes, id \in TypeIds :
        /\ store' = store \cup {cls_key(T, id)}
        /\ m' = [cls |-> T, id |-> id]
        /\ result' = [kind |-> "save", status |-> "ok", exc |-> "none"]
        /\ UNCHANGED <<TRANSACTION, tr, scopes, watched, dirty, pipes,
                       execCount, mpc, cpc, call, exc, conflict>>

TypeDelete ==
    \E T \in ModelTypes, id \in TypeIds :
        /\ store' = store \ {cls_key(T, id)}
        /\ m' = [cls |-> T, id |-> id]
        /\ result' = [kind |-> "delete", status |-> "ok", exc |-> "none"]
        /\ UNCHANGED <<TRANSACTION, tr, scopes, watched, dirty, pipes,
                       execCount, mpc, cpc, call, exc, conflict>>

TypeInit ==
    /\ store = {}
    /\ m = [cls |-> "A", id |-> 1]
    /\ TRANSACTION = 0
    /\ tr = <<>>
    /\ scopes = <<>>
    /\ watched = {}
    /\ dirty = FALSE
    /\ pipes = 0
    /\ execCount = 0
    /\ mpc = "idle"
    /\ cpc = "none"
    /\ call = NoCall
    /\ exc = "none"
    /\ conflict = FALSE
    /\ result = [kind |-> "none", status |-> "none", exc |-> "none"]

TypeNext == TypeGet \/ TypeSave \/ TypeDelete

TypeSpec == TypeInit /\ [][TypeNext]_vars

\* ------------------------------------------------------ connection scopes
\* Two call chains, each an asyncio task with its own copy of the context
\* variables.  m[c] is the context of chain c (0 = None), scopes[c] its live
\* connection() and transaction() scopes, innermost last; pipes counts the
\* connections and execCount the pipelines opened so far, watched holds the
\* connections that are open and tr the connections closed, in order.

Chains == {1, 2}

NoContext == [CONNECTION |-> 0, TRANSACTION |-> 0]

Frame(fn, conn, ownsConn, ownsTr) ==
    [fn |-> fn, conn |-> conn, ownsConn |-> ownsConn, ownsTr |-> ownsTr]

\* connection(): `if connection: yield connection; return` -- only the scope
\* that found no connection reaches the finally that closes it
ClosesOnExitMutAlways(f) == TRUE

ClosesOnExit(f) == f.ownsConn

SessFrame == <<store, TRANSACTION, dirty, mpc, cpc, call, exc, conflict, result>>

Push(c, f) == scopes' = [scopes EXCEPT ![c] = Append(@, f)]

SessConnectionEnter(c) ==
    /\ Len(scopes[c]) < MaxDepth
    /\ IF m[c].CONNECTION # 0
       THEN /\ Push(c, Frame("connection", m[c].CONNECTION, FALSE, FALSE))
            /\ UNCHANGED <<m, pipes, watched>>
       ELSE /\ pipes < MaxOpens
            /\ pipes' = pipes + 1
            /\ watched' = watched \cup {pipes + 1}
            /\ m' = [m EXCEPT ![c].CONNECTION = pipes + 1]
            /\ Push(c, Frame("connection", pipes + 1, TRUE, FALSE))
    /\ UNCHANGED <<tr, execCount>>
    /\ UNCHANGED SessFrame

SessTransactionEnter(c) ==
    /\ Len(scopes[c]) < MaxDepth
    /\ IF m[c].TRANSACTION # 0
       THEN /\ Push(c, Frame("transaction", m[c].CONNECTION, FALSE, FALSE))
            /\ UNCHANGED <<m, pipes, watched, execCount>>
       ELSE /\ execCount < MaxOpens
            /\ execCount' = execCount + 1
            /\ IF m[c].CONNECTION # 0
               THEN /\ m' = [m EXCEPT ![c].TRANSACTION = execCount + 1]
                    /\ Push(c, Frame("transaction", m[c].CONNECTION, FALSE, TRUE))
                    /\ UNCHANGED <<pipes, watched>>
               ELSE /\ pipes < MaxOpens
                    /\ pipes' = pipes + 1
                    /\ watched' = watched \cup {pipes + 1}
                    /\ m' = [m EXCEPT ![c] = [CONNECTION |-> pipes + 1,
                                              TRANSACTION |-> execCount + 1]]
                    /\ Push(c, Frame("transaction", pipes + 1, TRUE, TRUE))
    /\ UNCHANGED tr
    /\ UNCHANGED SessFrame

\* leaving the innermost scope of chain c
SessExit(c, fn) ==
    /\ scopes[c] # <<>>
    /\ LET f == scopes[c][Len(scopes[c])] IN
        /\ f.fn = fn
        /\ scopes' = [scopes EXCEPT ![c] = SubSeq(@, 1, Len(@) - 1)]
        /\ m' = [m EXCEPT ![c] =
                   [CONNECTION |-> IF ClosesOnExit(f) THEN 0 ELSE @.CONNECTION,
                    TRANSACTION |-> IF f.ownsTr THEN 0 ELSE @.TRANSACTION]]
        /\ tr' = IF ClosesOnExit(f) THEN Append(tr, f.conn) ELSE tr
        /\ watched' = IF ClosesOnExit(f) THEN watched \ {f.conn} ELSE watched
    /\ UNCHANGED <<pipes, execCount>>
    /\ UNCHANGED SessFrame

SessConnectionExit(c) == SessExit(c, "connection")

SessTransactionExit(c) == SessExit(c, "transaction")

SessInit ==
    /\ store = EmptyStore
    /\ m = [c \in Chains |-> NoContext]
    /\ TRANSACTION = 0
    /\ tr = <<>>
    /\ scopes = [c \in Chains |-> <<>>]
    /\ watched = {}
    /\ dirty = FALSE
    /\ pipes = 0
    /\ execCount = 0
    /\ mpc = "idle"
    /\ cpc = "none"
    /\ call = NoCall
    /\ exc = "none"
    /\ conflict = FALSE
    /\ result = NoResult

SessNext ==
    \E c \in Chains :
        \/ SessConnectionEnter(c)
        \/ SessTransactionEnter(c)
        \/ SessConnectionExit(c)
        \/ SessTransactionExit(c)

SessSpec == SessInit /\ [][SessNext]_vars

\* ------------------------------------------------------ gathered reads
\* Model.get and RedisCollection.get_values hand one deserialization per field,
\* or per stored element, to asyncio.gather.  m is the gather in progress,
\* watched the positions whose awaitable has not completed and tr the
\* positions in the order in which they completed.

NoGather == [what |-> "none", jobs |-> <<>>]

\* model_fields = [f for f in fields(cls) if not is_transient(f)]
model_fields == SelectSeq(FieldOrder, LAMBDA f : ~is_transient(f))

\* the value that the awaitable at one position returns
JobResult(s, what, job) ==
    IF what = "fields"
    THEN deserialize(s, job, s.hashes[db_id(1)][job]).v
    ELSE json_loads(job)

\* asyncio.gather: the results are in the order of the awaitables, whatever
\* the order in which they completed
gatherMutCompletion(outs, order) == [i \in 1..Len(outs) |-> outs[order[i]]]

gather(outs, order) == outs

\* from_dict({f.name: value for f, value in zip(model_fields, deserialized)})
\* and type(self).wrap(values)
Assembled(what, jobs, values) ==
    IF what = "fields"
    THEN [f \in {jobs[i] : i \in 1..Len(jobs)} |->
             values[CHOOSE i \in 1..Len(jobs) : jobs[i] = f]]
    ELSE [values |-> values]

GatherFrame == <<store, TRANSACTION, scopes, dirty, pipes, execCount, mpc, cpc,
                 call, exc, conflict>>

GatherStart(what, jobs) ==
    /\ m.what = "none"
    /\ jobs # <<>>
    /\ m' = [what |-> what, jobs |-> jobs]
    /\ watched' = 1..Len(jobs)
    /\ tr' = <<>>
    /\ result' = [kind |-> "none", status |-> "none", inst |-> NoInst, order |-> <<>>]
    /\ UNCHANGED GatherFrame

GatherFields == GatherStart("fields", model_fields)

GatherMembers == GatherStart("members", store.lists[items_key(1)])

GatherComplete ==
    \E i \in watched :
        /\ m.what # "none"
        /\ watched' = watched \ {i}
        /\ tr' = Append(tr, i)
        /\ UNCHANGED <<m, result>>
        /\ UNCHANGED GatherFrame

GatherReturn ==
    /\ m.what # "none"
    /\ watched = {}
    /\ LET outs == [i \in 1..Len(m.jobs) |-> JobResult(store, m.what, m.jobs[i])]
       IN result' = [kind |-> m.what, status |-> "ok",
                     inst |-> Assembled(m.what, m.jobs, gather(outs, tr)),
                     order |-> tr]
    /\ m' = NoGather
    /\ tr' = <<>>
    /\ UNCHANGED watched
    /\ UNCHANGED GatherFrame

GatherLists == {<<"1">>, <<"1", "2">>, <<"2", "1">>}

GatherInit ==
    /\ \E f1 \in IntVals, f2 \in StrVals \cup {None}, l \in GatherLists :
          store = [EmptyStore EXCEPT
                     !.hashes[db_id(1)] =
                         [f \in HashFields |->
                             CASE f = "id" -> json_dumps(1)
                               [] f = "f1" -> json_dumps(f1)
                               [] f = "f2" -> f2
                               [] f = "items" -> field_key(1, "items")
                               [] OTHER -> None],
                     !.lists[items_key(1)] = l]
    /\ m = NoGather
    /\ TRANSACTION = 0
    /\ tr = <<>>
    /\ scopes = <<>>
    /\ watched = {}
    /\ dirty = FALSE
    /\ pipes = 0
    /\ execCount = 0
    /\ mpc = "idle"
    /\ cpc = "none"
    /\ call = NoCall
    /\ exc = "none"
    /\ conflict = FALSE
    /\ result = [kind |-> "none", status |-> "none", inst |-> NoInst, order |-> <<>>]

GatherNext == GatherFields \/ GatherMembers \/ GatherComplete \/ GatherReturn

GatherSpec == GatherInit /\ [][GatherNext]_vars

\* ------------------------------------------------------- transient fields
\* The client sets the transient field cache and the field f1 of m, saves and
\* updates the instance and gets it back; the other client writes a value
\* under the transient field's name into the stored hash.

TransientChanges == ChangeSets \cup {("cache" :> v) : v \in IntVals}

TransientFrame == <<TRANSACTION, tr, scopes, watched, dirty, pipes, execCount,
                    mpc, cpc, call, exc, conflict>>

TransientSet ==
    /\ \/ \E v \in IntVals : m' = [m EXCEPT !.cache = v]
       \/ \E v \in IntVals : m' = [m EXCEPT !.f1 = v]
    /\ m' # m
    /\ result' = NoResult
    /\ UNCHANGED store
    /\ UNCHANGED TransientFrame

TransientSave ==
    /\ store' = ApplyAll(store, ModelCmds("save", m, NoChanges))
    /\ result' = [NoResult EXCEPT !.kind = "save", !.status = "ok"]
    /\ UNCHANGED m
    /\ UNCHANGED TransientFrame

TransientUpdate ==
    \E c \in TransientChanges :
        /\ store' = ApplyAll(store, ModelCmds("update", m, c))
        /\ result' = [NoResult EXCEPT !.kind = "update", !.status = "ok",
                                      !.inst = Replace(m, c)]
        /\ UNCHANGED m
        /\ UNCHANGED TransientFrame

TransientGet ==
    /\ result' = [NoResult EXCEPT !.kind = "get",
                                  !.status = Get(store, m.id).status,
                                  !.inst = Get(store, m.id).inst]
    /\ UNCHANGED <<store, m>>
    /\ UNCHANGED TransientFrame

TransientEnvHset ==
    \E v \in IntVals :
        /\ store' = ApplyCmd(store, HSet(db_id(m.id), "cache", json_dumps(v)))
        /\ store' # store
        /\ result' = NoResult
        /\ UNCHANGED m
        /\ UNCHANGED TransientFrame

TransientInit ==
    /\ store = EmptyStore
    /\ m \in {[id |-> i, f1 |-> 0, f2 |-> None, items |-> <<>>, cache |-> 0] : i \in Ids}
    /\ TRANSACTION = 0
    /\ tr = <<>>
    /\ scopes = <<>>
    /\ watched = {}
    /\ dirty = FALSE
    /\ pipes = 0
    /\ execCount = 0
    /\ mpc = "idle"
    /\ cpc = "none"
    /\ call = NoCall
    /\ exc = "none"
    /\ conflict = FALSE
    /\ result = NoResult

TransientNext ==
    \/ TransientSet
    \/ TransientSave
    \/ TransientUpdate
    \/ TransientGet
    \/ TransientEnvHset

TransientSpec == TransientInit /\ [][TransientNext]_vars

\* ------------------------------------------- transaction scopes, aioredis
\* session.transaction and session.connection of the aioredis generation, in
\* one call chain.  TRANSACTION is the ambient MultiExec (0 = None), m the
\* ambient connection, scopes the live transaction() scopes, watched the
\* MultiExec objects that were executed, dirty the fact that a watched key
\* was written by the other client, exc the exception that is propagating.

RomFrame == <<store, tr, mpc, cpc, call, conflict, result>>

RomTransactionEnter ==
    /\ exc = "none"
    /\ Len(scopes) < MaxDepth
    /\ IF TRANSACTION # 0
       THEN /\ scopes' = Append(scopes, Frame("transaction", m.CONNECTION, FALSE, FALSE))
            /\ UNCHANGED <<TRANSACTION, m, pipes, execCount>>
       ELSE /\ execCount < MaxOpens
            /\ execCount' = execCount + 1
            /\ TRANSACTION' = execCount + 1
            /\ IF m.CONNECTION # 0
               THEN /\ scopes' = Append(scopes, Frame("transaction", m.CONNECTION,
                                                      FALSE, TRUE))
                    /\ UNCHANGED <<m, pipes>>
               ELSE /\ pipes' = pipes + 1
                    /\ m' = [m EXCEPT !.CONNECTION = pipes + 1]
                    /\ scopes' = Append(scopes, Frame("transaction", pipes + 1,
                                                      TRUE, TRUE))
    /\ UNCHANGED <<watched, dirty, exc>>
    /\ UNCHANGED RomFrame

\* the body of the innermost scope raises
RomBodyRaises ==
    /\ scopes # <<>>
    /\ exc = "none"
    /\ exc' = "Error"
    /\ UNCHANGED <<TRANSACTION, m, scopes, watched, dirty, pipes, execCount>>
    /\ UNCHANGED RomFrame

\* the other client writes a key that the open transaction watches
RomConflict ==
    /\ TRANSACTION # 0
    /\ TRANSACTION \notin watched
    /\ ~dirty
    /\ dirty' = TRUE
    /\ UNCHANGED <<TRANSACTION, m, scopes, watched, exc, pipes, execCount>>
    /\ UNCHANGED RomFrame

\* transaction(): `finally: await transaction.execute(); TRANSACTION.reset(t)`
\* and connection(): `yield conn; CONNECTION.reset(t)`
RomTransactionExit ==
    /\ scopes # <<>>
    /\ LET f == scopes[Len(scopes)]
           raises == f.ownsTr /\ dirty
           raised == IF raises THEN "WatchError" ELSE exc
       IN /\ scopes' = SubSeq(scopes, 1, Len(scopes) - 1)
          /\ watched' = IF f.ownsTr THEN watched \cup {TRANSACTION} ELSE watched
          /\ exc' = raised
          /\ TRANSACTION' = IF f.ownsTr /\ ~raises THEN 0 ELSE TRANSACTION
          /\ m' = IF f.ownsConn /\ raised = "none"
                  THEN [m EXCEPT !.CONNECTION = 0] ELSE m
          /\ dirty' = IF f.ownsTr THEN FALSE ELSE dirty
    /\ UNCHANGED <<pipes, execCount>>
    /\ UNCHANGED RomFrame

\* the caller of the outermost scope handles the exception
RomCaught ==
    /\ scopes = <<>>
    /\ exc # "none"
    /\ exc' = "none"
    /\ UNCHANGED <<TRANSACTION, m, scopes, watched, dirty, pipes, execCount>>
    /\ UNCHANGED RomFrame

RomInit ==
    /\ store = EmptyStore
    /\ m = [CONNECTION |-> 0]
    /\ TRANSACTION = 0
    /\ tr = <<>>
    /\ scopes = <<>>
    /\ watched = {}
    /\ dirty = FALSE
    /\ pipes = 0
    /\ execCount = 0
    /\ mpc = "idle"
    /\ cpc = "none"
    /\ call = NoCall
    /\ exc = "none"
    /\ conflict = FALSE
    /\ result = NoResult

RomNext ==
    \/ RomTransactionEnter
    \/ RomBodyRaises
    \/ RomConflict
    \/ RomTransactionExit
    \/ RomCaught

RomSpec == RomInit /\ [][RomNext]_vars

\* ------------------------------------------------ parametrized collections
\* RedisList[X] in the two generations of GenericCollection.__class_getitem__.
\* m holds the module's cache of generated classes (collections.py) and the
\* class attribute __parameters__ of RedisList (attributes.py); scopes are the
\* instances created so far, each with the element type it was created for,
\* and watched the classes that the subscriptions returned.

ItemTypes == {"int", "str", "Foo"}
Generations == {"collections", "attributes"}

Unparametrized == "RedisList"

\* type(cls.__name__, (cls,), cls_dict): the n-th class that was generated
Generated(X, n) == "RedisList[" \o X \o "]#" \o ToString(n)

\* _generic_types_cache.get((cls, params))
CachedClass(o, X) == {e \in o.generic_types_cache : e.X = X}

\* the class that cls[X] returns
ClassGetItemOf(o, gen, X) ==
    IF gen = "attributes" THEN Unparametrized
    ELSE IF CachedClass(o, X) # {} THEN (CHOOSE e \in CachedClass(o, X) : TRUE).cls
    ELSE Generated(X, Cardinality(o.generic_types_cache) + 1)

\* the state that cls[X] leaves behind
Subscripted(o, gen, X) ==
    IF gen = "collections"
    THEN [o EXCEPT !.generic_types_cache =
                       @ \cup {[X |-> X, cls |-> ClassGetItemOf(o, gen, X)]}]
    ELSE [o EXCEPT !.parameters = X]

\* the item class that a class, or an instance of it, uses
item_class(o, cls) ==
    IF cls = Unparametrized THEN o.parameters
    ELSE CHOOSE X \in ItemTypes :
             \E n \in 1..Cardinality(ItemTypes) : cls = Generated(X, n)

ParamFrame == <<store, TRANSACTION, tr, dirty, pipes, execCount, mpc, cpc, call,
                exc, conflict>>

ClassGetItem ==
    \E gen \in Generations, X \in ItemTypes :
        /\ m' = Subscripted(m, gen, X)
        /\ watched' = watched \cup {[gen |-> gen, X |-> X, cls |-> ClassGetItemOf(m, gen, X)]}
        /\ result' = [kind |-> "class_getitem", status |-> "ok",
                      inst |-> [cls |-> ClassGetItemOf(m, gen, X)]]
        /\ UNCHANGED scopes
        /\ UNCHANGED ParamFrame

\* cls[X](): the subscription, then an instance of the class it returned
Instantiate ==
    \E gen \in Generations, X \in ItemTypes :
        /\ Len(scopes) < MaxItems
        /\ m' = Subscripted(m, gen, X)
        /\ watched' = watched \cup {[gen |-> gen, X |-> X, cls |-> ClassGetItemOf(m, gen, X)]}
        /\ scopes' = Append(scopes, [cls |-> ClassGetItemOf(m, gen, X), X |-> X])
        /\ result' = [kind |-> "new", status |-> "ok",
                      inst |-> [cls |-> ClassGetItemOf(m, gen, X)]]
        /\ UNCHANGED ParamFrame

\* an instance is dropped
Forget ==
    /\ scopes # <<>>
    /\ scopes' = Tail(scopes)
    /\ result' = [kind |-> "none", status |-> "none", inst |-> [cls |-> "none"]]
    /\ UNCHANGED <<m, watched>>
    /\ UNCHANGED ParamFrame

ParamInit ==
    /\ store = EmptyStore
    /\ m = [generic_types_cache |-> {}, parameters |-> "none"]
    /\ TRANSACTION = 0
    /\ tr = <<>>
    /\ scopes = <<>>
    /\ watched = {}
    /\ dirty = FALSE
    /\ pipes = 0
    /\ execCount = 0
    /\ mpc = "idle"
    /\ cpc = "none"
    /\ call = NoCall
    /\ exc = "none"
    /\ conflict = FALSE
    /\ result = [kind |-> "none", status |-> "none", inst |-> [cls |-> "none"]]

ParamNext == ClassGetItem \/ Instantiate \/ Forget

ParamSpec == ParamInit /\ [][ParamNext]_vars

\* ------------------------------------------------------------- properties
\* the step in which the scope that opened the pipeline is left
OutermostExit == Len(scopes) = 1 /\ scopes' = <<>>

\* the step in which a transaction() scope is entered inside an open one
NestedEntry == TRANSACTION # 0 /\ Len(scopes') = Len(scopes) + 1

\* the step in which a scope that did not open the pipeline is left
InnerExit == Len(scopes) = 2 /\ Len(scopes') = 1

\* the step in which the running call `fn` returns without raising
ReturnsOk(fn) ==
    /\ call.fn = fn \/ Idle
    /\ call' = NoCall
    /\ result'.kind = fn
    /\ result'.status = "ok"

\* the instance m is stored and loads
Persisted == Get(store, m.id).status = "ok"

\* what a save of inst writes: the hash fields, the membership, the nested list
SaveApplied(s, inst) ==
    LET d == ModelDict(inst, NoChanges)
    IN /\ \A f \in DOMAIN d : s.hashes[db_id(inst.id)][f] = d[f]
       /\ ToString(inst.id) \in s.sets[prefix]
       /\ "items" \in DOMAIN d => s.lists[items_key(inst.id)] = SerializeElems(inst.items)

\* C1: when the other client writes the key an optimistic call watched, between
\* the watch and the execute, executing the queued writes fails with WatchError
\* and the store is left exactly as it was: none of the writes is applied.
C1_OptimisticConflictAbort ==
    [][(OutermostExit /\ conflict /\ tr # <<>>)
         => (store' = store /\ result'.status = "WatchError")]_vars

\* a save with a nested collection (hash, membership and list writes queued)
\* that ended in WatchError after a conflicting write
C1_Witness ==
    /\ result.kind = "save"
    /\ result.conflict
    /\ result.status = "WatchError"
    /\ result.queued = 5

\* C2: when the body of the transaction scope raised after operations were
\* queued, leaving the scope applies none of them to the store.
C2_FailureAbortsTransaction ==
    [][(OutermostExit /\ exc # "none" /\ tr # <<>>) => store' = store]_vars

\* C3: entering transaction() inside an open transaction yields that same
\* pipeline with its queue and opens no other; leaving the inner scope executes
\* nothing; a call that opened a pipeline executes it exactly once, at the
\* outermost exit.
C3_Reentrant ==
    [][/\ NestedEntry => /\ TRANSACTION' = TRANSACTION
                         /\ pipes' = pipes
                         /\ SubSeq(tr', 1, Len(tr)) = tr
                         /\ execCount' = execCount
       /\ InnerExit => /\ store' = store
                       /\ execCount' = execCount
                       /\ TRANSACTION' = TRANSACTION
       /\ (call # NoCall /\ call' = NoCall /\ pipes > 0)
             => (OutermostExit /\ result'.executes = 1 /\ result'.pipes = 1)]_vars

\* a completed Model.save that went through the nested collection save
C3_Witness ==
    /\ result.kind = "save"
    /\ result.status = "ok"
    /\ result.queued = 5
    /\ result.executes = 1

\* C4: one Model.save either persists all of its writes (hash fields,
\* membership, nested list) or leaves the store as it was.
C4_SaveAllOrNone ==
    [][(OutermostExit /\ call.fn = "save")
         => (store' = store \/ SaveApplied(store', m))]_vars

\* C5: Model.get raises NotFound whenever no hash is stored under the key, and
\* otherwise raises or returns an instance holding every field, each
\* non-transient one with a deserialized value of its type.
C5_GetAllOrException ==
    result.kind = "get" =>
        /\ result.status \in {"ok", "NotFound", "TypeError"}
        /\ ~HashExists(store, db_id(m.id)) <=> result.status = "NotFound"
        /\ result.status = "ok" =>
              /\ DOMAIN result.inst = AllFields
              /\ result.inst.id \in Ids
              /\ result.inst.f1 \in IntVals
              /\ result.inst.f2 \in StrVals \cup {None}
              /\ result.inst.items \in Seq(Elems)

\* a get that returned an instance from a hash that lacks an optional field
C5_Witness ==
    /\ result.kind = "get"
    /\ result.status = "ok"
    /\ store.hashes[db_id(m.id)]["f2"] = None
    /\ store.hashes[db_id(m.id)]["items"] = None

\* C6: a get that directly follows a completed save of m returns an instance
\* equal to m.
C6_SaveGetRoundTrip ==
    (result.kind = "get" /\ result.afterSave)
        => (result.status = "ok" /\ ModelEq(result.inst, m))

\* C7: a completed update of a stored instance leaves every hash field it does
\* not name and every set as they were, and a get then shows the new value for
\* each named field and the earlier value for every other.
C7_UpdateFrame ==
    [][(ReturnsOk("update") /\ Persisted) =>
         LET k == db_id(m.id)
             before == Get(store, m.id).inst
             after == Get(store', m.id)
         IN /\ \A f \in AllFields \ DOMAIN call.changes :
                   store'.hashes[k][f] = store.hashes[k][f]
            /\ store'.sets = store.sets
            /\ after.status = "ok"
            /\ \A f \in AllFields :
                   after.inst[f] = IF f \in DOMAIN call.changes
                                   THEN call.changes[f] ELSE before[f]]_vars

\* C8: a completed update(f2=None) of an instance whose hash holds f2 removes
\* f2 from the hash.
C8_UpdateNoneDeletesField ==
    [][(/\ ReturnsOk("update")
        /\ call.changes = ("f2" :> None)
        /\ store.hashes[db_id(m.id)]["f2"] # None)
         => store'.hashes[db_id(m.id)]["f2"] = None]_vars

\* C9: after a completed save the stored hash holds exactly the fields of the
\* serialized model: a field the model leaves out is absent from the hash.
C9_SaveRewritesHash ==
    [][ReturnsOk("save") =>
          LET d == ModelDict(m, NoChanges)
          IN \A f \in AllFields :
                store'.hashes[db_id(m.id)][f] = IF f \in DOMAIN d THEN d[f] ELSE None]_vars

\* C10: after a completed save of the collection the remote list holds exactly
\* the serialized in-memory members.
C10_CollectionFullReplace ==
    [][ReturnsOk("collsave")
         => store'.lists[items_key(m.id)] = SerializeElems(m.items)]_vars


\* C11: a completed delete leaves no hash under the instance's key and no key
\* nested under it, and the instance's id is no longer a member of the
\* membership set, so that count() no longer counts it.
C11_DeleteRemovesMembership ==
    [][ReturnsOk("delete") =>
          /\ ~HashExists(store', db_id(m.id))
          /\ keys(store', m.id) = {}
          /\ ToString(m.id) \notin store'.sets[prefix]
          /\ count(store') = Cardinality(store.sets[prefix] \ {ToString(m.id)})]_vars


C14_OrphanScanResilience ==
    result.kind \in {"all", "scan"} =>
        /\ result.status = "ok"
        /\ result.inst = Models(store, FooValid(store))


\* C15: indexing a lazily loaded model list at a position whose member is not
\* loaded raises ModelNotLoadedException, and at a position whose member is
\* loaded returns that member.
C15_NotLoadedAccess ==
    result.kind = "getitem" =>
        LET k == m.keys[result.index]
        IN IF k \in Cached(m)
           THEN result.status = "ok" /\ result.inst = CacheGet(m, k)
           ELSE result.status = "NotLoaded"

\* C16: iterating a model list, taking its length or testing the membership of
\* one of its members accounts for every key of the list, loaded or not, or
\* raises a not-loaded error.
C16_NoSilentSkip ==
    /\ result.kind = "iter" =>
          \/ result.status = "NotLoaded"
          \/ Len(result.inst.models) = Len(m.keys)
    /\ result.kind = "len" =>
          \/ result.status = "NotLoaded"
          \/ result.inst.count = Len(m.keys)
    /\ result.kind = "contains" =>
          \/ result.status = "NotLoaded"
          \/ result.inst.found


\* C17: reading an attribute of a proxy that has not been refreshed fails with
\* the explicit error, and reading it after refresh() gives the attribute of
\* the instance that was fetched.
C17_ProxyAccess ==
    result.kind = "getattr" =>
        IF ~Resolved(m)
        THEN result.status = "ValueError"
        ELSE /\ result.status = "ok"
             /\ result.inst.value = TargetAttr(m.proxied, result.attr)

\* C18: save() on a proxy that has not been refreshed awaits no save and writes
\* nothing to the store; save(optimistic, cascade) on a refreshed proxy awaits
\* the wrapped instance's save exactly once, with the same two arguments.
C18_ProxySave ==
    [][(mpc = "idle" /\ mpc' = "exit" /\ call'.fn = "save") =>
          IF ~Resolved(m)
          THEN tr' = <<>> /\ store' = store
          ELSE tr' = <<Awaited("save", m.proxied,
                               [optimistic |-> call'.optimistic,
                                cascade |-> call'.cascade])>>]_vars

C18_Witness ==
    /\ mpc = "exit"
    /\ call = ProxyCall("save", TRUE, TRUE)
    /\ Resolved(m)
    /\ Len(tr) = 1
    /\ tr[1].args = [optimistic |-> TRUE, cascade |-> TRUE]
    /\ HashExists(store, foo_db_id(m.id))


\* C19: deserializing a reference or a list of references whose field did not
\* ask for eager loading issues no get on the referenced model class.
C19_NoEagerFetchUnlessRequested ==
    (result.kind \in {"reference", "from_key", "get"} /\ ~result.eager) => tr = <<>>


\* C20: fetching a collection whose key does not exist returns the default
\* when a default factory was supplied and raises not-found otherwise; this
\* includes a fetch that follows delete() of the collection.
C20_MissingCollection ==
    (result.kind = "fetch" /\ ~Exists(store, foo_list_key)) =>
        IF result.factory # MISSING
        THEN result.status = "ok" /\ result.inst.default
        ELSE result.status = "NotFound"


\* C21: save, delete and the key computation of a collection whose id is not
\* set fail with an error and leave the store as it was, whatever the
\* collection holds.
C21_IdRequired ==
    [][(result'.kind \in {"save", "delete", "db_id"} /\ ~HasId(m)) =>
          /\ result'.status = "AttributeError"
          /\ store' = store]_vars


\* C22: while the client of a set that was loaded calls only async_add and
\* async_discard (and save), the local values are the members stored under
\* the set's key.
C22_AsyncSetConsistent ==
    (m.cls = "set" /\ m.tracked) => m.members = RemoteMembers(store, m)

C22_Witness ==
    /\ m.cls = "set" /\ m.tracked
    /\ result.kind = "async_discard" /\ result.status = "ok"
    /\ m.members = {1}
    /\ store.sets[set_key] = {"1"}

\* C23: while the client of a list that was loaded calls only async_append and
\* save, the local sequence is the stored list, element by element.
C23_ListOrder ==
    (m.cls = "list" /\ m.tracked) => m.values = RemoteValues(store, m)

C23_Witness ==
    /\ m.cls = "list" /\ m.tracked
    /\ result.kind = "save" /\ result.status = "ok"
    /\ m.values = <<2, 1>>
    /\ store.lists[foo_list_key] = <<"2", "1">>


\* C24: once m.refresh() has completed, every non-transient field of m holds
\* the stored value.
C24_RefreshOverwrites ==
    (result.kind = "refresh" /\ result.status = "ok") =>
        \A f \in NonTransient : m[f] = Get(store, m.id).inst[f]


\* C25: every scalar value of a supported type (str, bytes, int, float, bool)
\* serializes, and deserializing the result with the value's type gives back
\* an equal value of that type.
C25_ScalarRoundTrip ==
    /\ result.kind = "serialized" => result.status = "ok"
    /\ result.kind = "deserialized" =>
          result.status = "ok" /\ result.inst.values = m


\* C26: when a save of m has returned, a second save of the unchanged m (which
\* queues the same commands, tr) leaves the hash, the membership set and the
\* nested list as the first save left them.
C26_IdempotentSave ==
    [][(OutermostExit /\ call.fn = "save" /\ result'.status = "ok")
          => ApplyAll(store', tr) = store']_vars

C26_Witness ==
    /\ result.kind = "save"
    /\ result.status = "ok"
    /\ result.queued = 5
    /\ m.items # <<>>
    /\ store.lists[items_key(m.id)] = SerializeElems(m.items)
    /\ HashExists(store, db_id(m.id))


\* C27: every command that save, update and delete of the instance queue
\* addresses the primary hash at prefix:id, the nested field items at
\* prefix:id:items, or a membership set at a bare type name.
C27_KeyNaming ==
    \A i \in 1..Len(tr) :
        tr[i].key \in {db_id(m.id), field_key(m.id, "items"), prefix, coll_prefix}

\* C28: the exception that get of a model type raises for a missing id is an
\* instance of that type's NotFoundException and of ModelNotFoundException,
\* and of no other model type's NotFoundException, subclasses and
\* superclasses included.
C28_OwnNotFound ==
    (result.kind = "get" /\ result.status = "raised") =>
        /\ issubclass(result.exc, NotFoundException(m.cls))
        /\ issubclass(result.exc, ModelNotFoundException)
        /\ \A T \in ModelTypes \ {m.cls} :
               ~issubclass(result.exc, NotFoundException(T))

C28_Witness ==
    /\ result.kind = "get" /\ result.status = "raised"
    /\ m.cls = "B"
    /\ cls_key("A", m.id) \in store
    /\ cls_key("B", m.id) \notin store

\* how often connection k was closed
Closes(k) == Cardinality({i \in 1..Len(tr) : tr[i] = k})

\* C29: within a call chain every nested connection() scope holds the
\* connection its outermost scope opened, and that connection stays open
\* while any scope of the chain is live; a connection is closed once, when the
\* scope that opened it exits; two chains never hold the same connection or
\* the same transaction.
C29_ConnectionScoped ==
    /\ \A c \in Chains : \A i \in 1..Len(scopes[c]) :
          /\ scopes[c][i].conn = m[c].CONNECTION
          /\ scopes[c][i].conn \in watched
          /\ scopes[c][i].ownsConn <=> i = 1
    /\ \A c \in Chains : scopes[c] = <<>> => m[c] = NoContext
    /\ \A k \in 1..pipes :
          /\ Closes(k) = IF k \in watched THEN 0 ELSE 1
          /\ k \in watched => \E c \in Chains : m[c].CONNECTION = k
    /\ \A c1, c2 \in Chains : c1 # c2 =>
          /\ m[c1].CONNECTION # 0 => m[c1].CONNECTION # m[c2].CONNECTION
          /\ m[c1].TRANSACTION # 0 => m[c1].TRANSACTION # m[c2].TRANSACTION

C29_Witness ==
    /\ Len(scopes[1]) = 2
    /\ ~scopes[1][2].ownsConn
    /\ Len(scopes[2]) = 1
    /\ m[2].TRANSACTION # 0
    /\ m[1].TRANSACTION # 0
    /\ tr # <<>>

\* C30: when the task is cancelled inside a save, after the nested save has
\* queued its commands and before the transaction scope has exited, the store
\* is left as it was.
C30_CancelNoPartial ==
    [][(OutermostExit /\ exc = "CancelledError" /\ tr # <<>>) => store' = store]_vars

\* C31: while a save or update with optimistic set is running, every key that
\* has a command of that save in the queue (the hash of the instance, the
\* nested list saved inside the parent's transaction) is watched.
C31_WatchedBeforeQueue ==
    (call # NoCall /\ call.optimistic) =>
        \A i \in 1..Len(tr) :
            tr[i].key \in {db_id(m.id), items_key(m.id)} => tr[i].key \in watched

C33_CollectionFieldPersisted ==
    [][ReturnsOk("save")
         => store'.lists[items_key(m.id)] = SerializeElems(m.items)]_vars

\* C34: whatever the order in which the gathered deserializations complete,
\* get assigns to each field the value deserialized from that field's stored
\* value, and the materialized list holds the stored elements in stored order.
C34_GatherAssociation ==
    /\ result.kind = "fields" =>
          \A f \in NonTransient :
              result.inst[f] = deserialize(store, f, store.hashes[db_id(1)][f]).v
    /\ result.kind = "members" =>
          result.inst.values =
              [i \in 1..Len(store.lists[items_key(1)]) |->
                  json_loads(store.lists[items_key(1)][i])]

\* a get whose last field completed first and whose first field completed last
C34_Witness ==
    /\ result.kind = "fields"
    /\ result.order[1] = Len(model_fields)
    /\ result.order[Len(model_fields)] = 1
    /\ result.inst.f1 = 0
    /\ result.inst.f2 = "a"
    /\ result.inst.items = <<2, 1>>

\* C35: a save or an update leaves the stored value under the transient
\* field's name as it was, whatever the instance or the changes hold for it,
\* and the instance that get returns holds the transient field's default,
\* whatever the stored hash holds under its name.
C35_TransientExcluded ==
    [][/\ result'.kind \in {"save", "update"} =>
             store'.hashes[db_id(m.id)]["cache"] = store.hashes[db_id(m.id)]["cache"]
       /\ (result'.kind = "get" /\ result'.status = "ok") =>
             result'.inst["cache"] = DefaultOf("cache")]_vars

\* the instance was saved with its transient field set, the other client
\* wrote the transient field's name into the hash, and a get returned
C35_Witness ==
    /\ result.kind = "get"
    /\ result.status = "ok"
    /\ m.cache = 1
    /\ m.f1 = 1
    /\ result.inst.f1 = 1
    /\ store.hashes[db_id(m.id)]["cache"] = "1"
    /\ result.inst.cache = 0

\* C36: when no transaction() scope of the call chain is live, no ambient
\* transaction is set, and the ambient transaction is never one that was
\* executed already.
C36_NoStaleTransaction ==
    /\ scopes = <<>> => TRANSACTION = 0
    /\ TRANSACTION \notin watched

\* C37: an async_add, async_discard or async_append that raises leaves the
\* local values as they were, and a local collection that agreed with the
\* stored one before the call agrees with it after the call.
C37_AsyncFailureConsistent ==
    [][(result'.kind \in {"async_add", "async_discard", "async_append"}
          /\ result'.status # "ok") =>
          /\ m'.members = m.members
          /\ m'.values = m.values
          /\ (m.members = RemoteMembers(store, m) /\ m.values = RemoteValues(store, m))
                => (m'.members = RemoteMembers(store', m')
                      /\ m'.values = RemoteValues(store', m'))]_vars

\* C38: iterating a list that has an id asynchronously to its end completes,
\* and the local list then holds every stored element at its stored index.
C38_AiterMirrorsRemote ==
    [][(result'.kind = "aiter" /\ HasId(m)) =>
          /\ result'.status = "ok"
          /\ SubSeq(m'.values, 1, Len(RemoteValues(store, m))) = RemoteValues(store, m)]_vars

\* C39: an insert or a __delitem__ on a lazy model list whose present keys
\* all have a cache entry leaves every present key with a cache entry, and
\* the key that __delitem__ removed is neither among the keys nor in the
\* cache.
C39_KeysAndCacheInStep ==
    [][(result'.kind \in {"insert", "delitem"}
          /\ \A j \in 1..Len(m.keys) : m.keys[j] \in Cached(m)) =>
          /\ \A j \in 1..Len(m'.keys) : m'.keys[j] \in Cached(m')
          /\ result'.kind = "delitem" =>
                /\ m.keys[result'.index] \notin Cached(m')
                /\ \A j \in 1..Len(m'.keys) : m'.keys[j] # m.keys[result'.index]]_vars

\* C40: the subscriptions of a collection class with one element type all
\* returned the same class, the class returned for an element type uses that
\* element type as its item class, and so does every instance created from
\* it, whatever other element types the class was subscripted with since.
C40_ParametrizationIsolated ==
    /\ \A a, b \in watched : (a.gen = b.gen /\ a.X = b.X) => a.cls = b.cls
    /\ \A a \in watched : item_class(m, a.cls) = a.X
    /\ \A i \in 1..Len(scopes) : item_class(m, scopes[i].cls) = scopes[i].X

====
